---- MODULE Spec2Model ----
(***************************************************************************)
(* The scene engine of the ChalkLet whiteboard                             *)
(* (src/components/whiteboard/canvas.tsx, WhiteboardCanvas): the viewport, *)
(* the six shape sequences, the draft, the selection, the move/resize      *)
(* interaction, the eraser and the undo history, as a state machine with   *)
(* one action per event handler.                                           *)
(*                                                                         *)
(* Every handler runs against the state of the last render: React renders  *)
(* between two events, so an action reads the unprimed variables where the *)
(* handler reads its closure, and chains its functional updaters           *)
(* (setX(prev => ...)) in the order the handler queues them.               *)
(*                                                                         *)
(* Numbers.  World coordinates of shapes are integers.  The scale, the     *)
(* offset, client coordinates, thresholds and the eraser's interpolated    *)
(* samples are exact rationals [n, d] in lowest terms.  A value produced   *)
(* by Math.sqrt / Math.hypot that is stored (a circle's radius) is kept as *)
(* the root of an integer, [sq |-> k] for sqrt(k); a distance that is only *)
(* compared against a threshold is compared by its square.  The wheel      *)
(* handler is also computed in IEEE 754 double precision, bit for bit      *)
(* (SpecFloat), where rounding decides what is asked.                      *)
(***************************************************************************)
EXTENDS Integers, Sequences, FiniteSets, TLC

---------------------------------------------------------------------------
(* Bounds of the model *)

\* pointer-down events in one run
MaxDown == 1
\* pointer-move events after one pointer-down
MaxMove == 2
\* wheel events and style changes (colour, width, brush) in one run
MaxAux == 1
\* pen taps in a run that fills the history
MaxPush == 150
\* wheel events in a run in double precision
MaxWheel == 1
\* wheel events at the origin before such a run: zooming in, zooming out
MaxIn == 23
MaxOut == 15
\* points of a stroke and points of an eraser path given to the segmenter
MaxStroke == 5
MaxPath == 2

---------------------------------------------------------------------------
(* Exact arithmetic *)

Abs(a) == IF a < 0 THEN -a ELSE a
Min2(a, b) == IF a <= b THEN a ELSE b
Max2(a, b) == IF a >= b THEN a ELSE b

RECURSIVE Gcd(_, _)
Gcd(a, b) == IF b = 0 THEN a ELSE Gcd(b, a % b)

\* the rational n/d in lowest terms with a positive denominator
Rat(n, d) ==
  LET s == IF d < 0 THEN -1 ELSE 1
      lowest(g) == [n |-> s * (n \div g), d |-> Abs(d) \div g]
  IN lowest(Gcd(Abs(n), Abs(d)))

I(k) == [n |-> k, d |-> 1]
RAdd(a, b) == Rat(a.n * b.d + b.n * a.d, a.d * b.d)
RSub(a, b) == Rat(a.n * b.d - b.n * a.d, a.d * b.d)
RMul(a, b) == Rat(a.n * b.n, a.d * b.d)
RDiv(a, b) == Rat(a.n * b.d, a.d * b.n)

\* a/b <= c/d for b, d > 0, by the integer parts and then the remainders'
\* reciprocals (no product of the operands is formed)
RECURSIVE FracLe(_, _, _, _)
FracLe(a, b, c, d) ==
  LET qa == a \div b
      qc == c \div d
      ra == a % b
      rc == c % d
  IN IF qa # qc THEN qa < qc
     ELSE IF ra = 0 THEN TRUE
     ELSE IF rc = 0 THEN FALSE
     ELSE FracLe(d, rc, b, ra)

RLe(a, b) == FracLe(a.n, a.d, b.n, b.d)
RLt(a, b) == ~RLe(b, a)
RMin(a, b) == IF RLe(a, b) THEN a ELSE b
RMax(a, b) == IF RLe(b, a) THEN a ELSE b

\* x*x <= y for rationals x >= 0, y >= 0: x <= y/x
SqLe(x, y) == x.n = 0 \/ RLe(x, RDiv(y, x))

\* sqrt(x) <= r and sqrt(x) < r for rationals x >= 0, r: the comparisons the
\* code makes between a Math.hypot result and a threshold
RootLe(x, r) == r.n >= 0 /\ (x.n = 0 \/ (r.n > 0 /\ RLe(RDiv(x, r), r)))
RootLt(x, r) == r.n > 0 /\ (x.n = 0 \/ RLt(RDiv(x, r), r))

\* Math.sqrt of a non-negative integer, kept exact
Sqrt(k) == [sq |-> k]

\* |dx| + |dy| instead of the Euclidean length
hypotManhattan(dx, dy) == Sqrt((Abs(dx) + Abs(dy)) * (Abs(dx) + Abs(dy)))

\* Math.hypot(dx, dy)
hypot(dx, dy) == Sqrt(dx * dx + dy * dy)

---------------------------------------------------------------------------
(* Program constants *)

MIN_SCALE == Rat(1, 2)
MAX_SCALE == Rat(3, 1)
SCALE_BY == Rat(21, 20)
MAX_HISTORY == 100

Tools ==
  {"pen", "eraser", "rect", "circle", "line", "arrow", "triangle", "pan", "select", "laser"}
BrushStyles == {"round", "square", "dashed"}

---------------------------------------------------------------------------
(* Inputs the environment draws from *)

\* world points under the pointer
Grid == {<<0, 0>>, <<3, 4>>, <<16, 0>>}
\* colours of the palette and stroke widths of the slider that are offered
Colors == {"#111111", "#4b5563"}
Widths == {3, 8}

---------------------------------------------------------------------------
(* Geometry and hit-testing.  The pointer (px, py) is a pair of rationals; *)
(* the threshold t is a non-negative rational.                             *)

\* |p - a|^2
PointDistSq(px, py, x, y) ==
  LET ax == RSub(px, I(x))
      ay == RSub(py, I(y))
  IN RAdd(RMul(ax, ax), RMul(ay, ay))

\* distPointToSeg(px, py, x1, y1, x2, y2) <= t.  With u = t clamped to [0, 1]
\* the code measures |p - (a + u(b - a))|: |p - a| for u = 0, |p - b| for
\* u = 1 and |cross(p - a, b - a)| / |b - a| in between.
distPointToSegLe(px, py, x1, y1, x2, y2, t) ==
  LET dx == x2 - x1
      dy == y2 - y1
      len2 == dx * dx + dy * dy
      ax == RSub(px, I(x1))
      ay == RSub(py, I(y1))
      dot == RAdd(RMul(ax, I(dx)), RMul(ay, I(dy)))
      cross == RSub(RMul(ax, I(dy)), RMul(ay, I(dx)))
      t2 == RMul(t, t)
  IN IF len2 = 0 THEN RLe(PointDistSq(px, py, x1, y1), t2)
     ELSE IF dot.n <= 0 THEN RLe(PointDistSq(px, py, x1, y1), t2)
     ELSE IF RLe(I(len2), dot) THEN RLe(PointDistSq(px, py, x2, y2), t2)
     ELSE SqLe([n |-> Abs(cross.n), d |-> cross.d], RMul(t2, I(len2)))

\* JavaScript's null and undefined, and the empty slot of a sparse array.
\* An array element the code reads may be any of them instead of a shape:
\* copy[idx] = v past the end leaves empty slots, spreading an array turns
\* its empty slots into undefined, and JSON.parse(JSON.stringify(a)) turns
\* both into null.
Null == [null |-> TRUE]
Undefined == [undefined |-> TRUE]
Hole == [hole |-> TRUE]
IsShape(s) == s # Hole /\ s # Null /\ s # Undefined

RECURSIVE polylineHitFrom(_, _, _, _, _)
polylineHitFrom(points, i, px, py, thresh) ==
  IF i + 1 > Len(points) THEN FALSE
  ELSE IF distPointToSegLe(px, py, points[i][1], points[i][2],
                           points[i + 1][1], points[i + 1][2], thresh) THEN TRUE
  ELSE polylineHitFrom(points, i + 1, px, py, thresh)

\* points holds the stroke's (x, y) pairs; the code's flat array
\* [x, y, x, y, ...] always holds whole pairs
polylineHit(points, px, py, thresh) == polylineHitFrom(points, 1, px, py, thresh)

rectHit(r, px, py, t) ==
  \/ distPointToSegLe(px, py, r.x, r.y, r.x + r.width, r.y, t)
  \/ distPointToSegLe(px, py, r.x + r.width, r.y, r.x + r.width, r.y + r.height, t)
  \/ distPointToSegLe(px, py, r.x + r.width, r.y + r.height, r.x, r.y + r.height, t)
  \/ distPointToSegLe(px, py, r.x, r.y + r.height, r.x, r.y, t)

\* sqrt(a) - sqrt(b) <= t for rationals a, b >= 0 and t >= 0
RootDiffLe(a, b, t) ==
  LET m == RSub(RSub(a, b), RMul(t, t))
  IN m.n <= 0 \/ (t.n > 0 /\ SqLe(RDiv(m, RMul(I(2), t)), b))

\* |hypot(p - centre) - radius| <= t
circleHit(c, px, py, t) ==
  LET d2 == PointDistSq(px, py, c.x, c.y)
      r2 == I(c.radius.sq)
  IN RootDiffLe(d2, r2, t) /\ RootDiffLe(r2, d2, t)

lineHit(l, px, py, t) == distPointToSegLe(px, py, l.x1, l.y1, l.x2, l.y2, t)

triangleHit(tr, px, py, t) ==
  \/ distPointToSegLe(px, py, tr.x1, tr.y1, tr.x2, tr.y2, t)
  \/ distPointToSegLe(px, py, tr.x2, tr.y2, tr.x3, tr.y3, t)
  \/ distPointToSegLe(px, py, tr.x3, tr.y3, tr.x1, tr.y1, t)

\* a bounding-box coordinate: base + sign * sqrt(sq) (sign = 0 for every
\* kind but the circle, whose box is centre -+ radius)
Coord(base) == [base |-> base, sign |-> 0, sq |-> 0]

getRectBBox(r) ==
  [x0 |-> Coord(Min2(r.x, r.x + r.width)), y0 |-> Coord(Min2(r.y, r.y + r.height)),
   x1 |-> Coord(Max2(r.x, r.x + r.width)), y1 |-> Coord(Max2(r.y, r.y + r.height))]
getCircleBBox(c) ==
  [x0 |-> [base |-> c.x, sign |-> -1, sq |-> c.radius.sq],
   y0 |-> [base |-> c.y, sign |-> -1, sq |-> c.radius.sq],
   x1 |-> [base |-> c.x, sign |-> 1, sq |-> c.radius.sq],
   y1 |-> [base |-> c.y, sign |-> 1, sq |-> c.radius.sq]]
getLineBBox(l) ==
  [x0 |-> Coord(Min2(l.x1, l.x2)), y0 |-> Coord(Min2(l.y1, l.y2)),
   x1 |-> Coord(Max2(l.x1, l.x2)), y1 |-> Coord(Max2(l.y1, l.y2))]
getTriBBox(t) ==
  [x0 |-> Coord(Min2(t.x1, Min2(t.x2, t.x3))), y0 |-> Coord(Min2(t.y1, Min2(t.y2, t.y3))),
   x1 |-> Coord(Max2(t.x1, Max2(t.x2, t.x3))), y1 |-> Coord(Max2(t.y1, Max2(t.y2, t.y3)))]

\* px >= h - hs and px <= h + hs, that is |px - h| <= hs, for the integer px,
\* the box coordinate h = base + sign * sqrt(sq) and the rational hs > 0
WithinHandle(px, h, hs) ==
  LET u == px - h.base
      v == h.sign * u
  IN IF h.sign = 0 THEN RLe(I(Abs(u)), hs)
     ELSE IF v >= 0
       THEN RootDiffLe(I(v * v), I(h.sq), hs) /\ RootDiffLe(I(h.sq), I(v * v), hs)
     ELSE RootLe(I(h.sq), RSub(hs, I(-v)))

---------------------------------------------------------------------------
(* State *)

VARIABLES
  \* props of WhiteboardCanvas, owned by WhiteboardApp
  tool, color, strokeWidth, brushStyle,
  \* world transform
  scale, offset, isPanning, panLast,
  \* the six shape sequences
  lines, rects, circles, simpleLines, arrows, triangles,
  \* drawing state
  draft, drawing, erasingPath, laser,
  \* selection and move/resize interaction
  selected, interaction,
  \* undo history, oldest snapshot first
  history,
  \* the last handler threw a TypeError; React unmounted the component
  threw, unmounted,
  \* counters that bound a run
  nDown, nMove, nAux,
  \* the gesture in progress or just completed; one during which the tool
  \* was changed is of the kind "switched"
  gest,
  \* the snapshots pushed since the last undo, in push order, after those
  \* that were on the stack then
  pushLog,
  \* the argument and the result of the last query of a pure function
  query, answer

props == <<tool, color, strokeWidth, brushStyle>>
view == <<scale, offset>>
pan == <<isPanning, panLast>>
scene == <<lines, rects, circles, simpleLines, arrows, triangles>>
counters == <<nDown, nMove, nAux>>
vars == <<tool, color, strokeWidth, brushStyle, scale, offset, isPanning, panLast,
          lines, rects, circles, simpleLines, arrows, triangles,
          draft, drawing, erasingPath, laser, selected, interaction, history,
          threw, unmounted, nDown, nMove, nAux, gest, pushLog, query, answer>>

\* the six shape sequences as one value
Scene ==
  [lines |-> lines, rects |-> rects, circles |-> circles,
   simpleLines |-> simpleLines, arrows |-> arrows, triangles |-> triangles]

EmptyScene ==
  [lines |-> <<>>, rects |-> <<>>, circles |-> <<>>,
   simpleLines |-> <<>>, arrows |-> <<>>, triangles |-> <<>>]

\* the sequence that holds the shapes of a kind
Arr(S, kind) ==
  CASE kind = "pen" -> S.lines
    [] kind = "rect" -> S.rects
    [] kind = "circle" -> S.circles
    [] kind = "line" -> S.simpleLines
    [] kind = "arrow" -> S.arrows
    [] kind = "triangle" -> S.triangles

\* arr[idx] for the code's 0-based idx: undefined outside the array
At(arr, idx) == IF idx >= 0 /\ idx < Len(arr) THEN arr[idx + 1] ELSE Undefined

\* copy = arr.slice(); copy[idx] = v: a write past the end grows the array
\* and leaves empty slots before idx
ArraySet(arr, idx, v) ==
  [j \in 1..Max2(Len(arr), idx + 1) |->
     IF j = idx + 1 THEN v ELSE IF j <= Len(arr) THEN arr[j] ELSE Hole]

\* [...arr, v]: spreading reads empty slots as undefined
SpreadAppend(arr, v) ==
  Append([j \in 1..Len(arr) |-> IF arr[j] = Hole THEN Undefined ELSE arr[j]], v)

---------------------------------------------------------------------------
(* Viewport *)

\* the client position at which the pointer is over world point p
ClientOf(p) ==
  [x |-> RAdd(RMul(I(p[1]), scale), offset.x),
   y |-> RAdd(RMul(I(p[2]), scale), offset.y)]

\* client coordinates are taken relative to the canvas: rect.left = rect.top = 0
getWorldPoint(clientX, clientY) ==
  [x |-> RDiv(RSub(clientX, offset.x), scale),
   y |-> RDiv(RSub(clientY, offset.y), scale)]

\* the world point of a pointer event drawn over the grid, as integers
WorldInt(w) == [x |-> w.x.n, y |-> w.y.n]

\* newScaleOf without the clamp
newScaleOfUnclamped(direction) ==
  IF direction > 0 THEN RMul(scale, SCALE_BY) ELSE RDiv(scale, SCALE_BY)

newScaleOf(direction) ==
  LET raw == IF direction > 0 THEN RMul(scale, SCALE_BY) ELSE RDiv(scale, SCALE_BY)
  IN RMin(MAX_SCALE, RMax(MIN_SCALE, raw))

---------------------------------------------------------------------------
(* History *)

\* JSON.parse(JSON.stringify(arr)) of a shape array: a shape (finite
\* numbers, strings, booleans) comes back field for field; an empty slot or
\* undefined comes back as null
JsonClone(arr) ==
  [j \in 1..Len(arr) |-> IF IsShape(arr[j]) THEN arr[j] ELSE Null]

Snapshot(S) ==
  [lines |-> JsonClone(S.lines), rects |-> JsonClone(S.rects),
   circles |-> JsonClone(S.circles), simpleLines |-> JsonClone(S.simpleLines),
   arrows |-> JsonClone(S.arrows), triangles |-> JsonClone(S.triangles)]

\* a stack that, when full, refuses the new snapshot instead of evicting the
\* oldest one
pushHistoryKeepOldest ==
  LET stack == Append(history, Snapshot(Scene))
  IN IF Len(stack) > MAX_HISTORY THEN SubSeq(stack, 1, MAX_HISTORY) ELSE stack

\* a push that stores the snapshot twice
pushHistoryTwice ==
  LET stack == Append(Append(history, Snapshot(Scene)), Snapshot(Scene))
  IN IF Len(stack) > MAX_HISTORY THEN Tail(stack) ELSE stack

\* historyRef.current after pushHistory()
pushHistory ==
  LET pushed == Append(history, Snapshot(Scene))
  IN IF Len(pushed) > MAX_HISTORY THEN Tail(pushed) ELSE pushed

---------------------------------------------------------------------------
(* Selection queries *)

\* the result of a query that read a field of a missing shape
Threw == [threw |-> TRUE]
NoHit == [hit |-> FALSE]

getSelectedBBox ==
  IF selected = Null THEN Null
  ELSE LET s == At(Arr(Scene, selected.kind), selected.idx)
       IN IF ~IsShape(s) THEN Threw
          ELSE CASE selected.kind = "rect" -> getRectBBox(s)
                 [] selected.kind = "circle" -> getCircleBBox(s)
                 [] selected.kind = "line" -> getLineBBox(s)
                 [] selected.kind = "arrow" -> getLineBBox(s)
                 [] selected.kind = "triangle" -> getTriBBox(s)

\* Math.max(6 / scale, 4 / scale)
HandleSize == RMax(RDiv(I(6), scale), RDiv(I(4), scale))

RECURSIVE handleScan(_, _, _, _, _)
handleScan(handles, i, px, py, hs) ==
  IF i > Len(handles) THEN NoHit
  ELSE IF WithinHandle(px, handles[i].x, hs) /\ WithinHandle(py, handles[i].y, hs)
    THEN [hit |-> TRUE, id |-> handles[i].id]
  ELSE handleScan(handles, i + 1, px, py, hs)

\* handleUnderPointer with the ids of the top-right and the bottom-left
\* handle exchanged
handleUnderPointerMirrored(px, py) ==
  LET bbox == getSelectedBBox
  IN IF bbox = Threw THEN Threw
     ELSE IF bbox = Null THEN NoHit
     ELSE handleScan(<<[x |-> bbox.x0, y |-> bbox.y0, id |-> 0],
                       [x |-> bbox.x1, y |-> bbox.y0, id |-> 3],
                       [x |-> bbox.x1, y |-> bbox.y1, id |-> 2],
                       [x |-> bbox.x0, y |-> bbox.y1, id |-> 1]>>,
                     1, px, py, HandleSize)

handleUnderPointer(px, py) ==
  LET bbox == getSelectedBBox
  IN IF bbox = Threw THEN Threw
     ELSE IF bbox = Null THEN NoHit
     ELSE handleScan(<<[x |-> bbox.x0, y |-> bbox.y0, id |-> 0],
                       [x |-> bbox.x1, y |-> bbox.y0, id |-> 1],
                       [x |-> bbox.x1, y |-> bbox.y1, id |-> 2],
                       [x |-> bbox.x0, y |-> bbox.y1, id |-> 3]>>,
                     1, px, py, HandleSize)

\* the hit test shapeUnderPointer applies to a shape of a kind
selectHit(kind, s, px, py) ==
  CASE kind = "pen" ->
         polylineHit(s.points, I(px), I(py),
                     RMax(RDiv(I(4), scale), Rat(s.strokeWidth, 2)))
    [] kind = "triangle" -> triangleHit(s, I(px), I(py), RDiv(I(6), scale))
    [] kind = "arrow" -> lineHit(s, I(px), I(py), RDiv(I(6), scale))
    [] kind = "line" -> lineHit(s, I(px), I(py), RDiv(I(6), scale))
    [] kind = "circle" -> circleHit(s, I(px), I(py), RDiv(I(6), scale))
    [] kind = "rect" -> rectHit(s, I(px), I(py), RDiv(I(6), scale))

\* for (let i = arr.length - 1; i >= 0; i--) if (hit(arr[i])) return i:
\* the index found, -1 when the loop ends, -2 when it reads a missing shape
RECURSIVE scanDown(_, _, _, _, _)
scanDown(kind, arr, i, px, py) ==
  IF i < 0 THEN -1
  ELSE IF ~IsShape(arr[i + 1]) THEN -2
  ELSE IF selectHit(kind, arr[i + 1], px, py) THEN i
  ELSE scanDown(kind, arr, i - 1, px, py)

\* the kinds in the order shapeUnderPointer scans them
ScanOrder == <<"pen", "triangle", "arrow", "line", "circle", "rect">>

RECURSIVE scanKinds(_, _, _, _, _)
scanKinds(S, order, k, px, py) ==
  IF k > Len(order) THEN Null
  ELSE LET found(i) == IF i = -2 THEN Threw
                       ELSE IF i >= 0 THEN [kind |-> order[k], idx |-> i]
                       ELSE scanKinds(S, order, k + 1, px, py)
       IN found(scanDown(order[k], Arr(S, order[k]), Len(Arr(S, order[k])) - 1, px, py))

shapeUnderPointer(px, py) == scanKinds(Scene, ScanOrder, 1, px, py)

---------------------------------------------------------------------------
(* Eraser *)

\* nearPath that leaves out the points at exactly the radius
nearPathStrict(pt, path, radius) ==
  \E j \in 1..Len(path) :
    RLt(RAdd(RMul(RSub(I(pt[1]), path[j].x), RSub(I(pt[1]), path[j].x)),
             RMul(RSub(I(pt[2]), path[j].y), RSub(I(pt[2]), path[j].y))),
        RMul(radius, radius))

\* Math.hypot(px - ex, py - ey) <= radius for some point (ex, ey) of path
nearPath(pt, path, radius) ==
  \E j \in 1..Len(path) :
    RLe(RAdd(RMul(RSub(I(pt[1]), path[j].x), RSub(I(pt[1]), path[j].x)),
             RMul(RSub(I(pt[2]), path[j].y), RSub(I(pt[2]), path[j].y))),
        RMul(radius, radius))

\* splitFrom that goes on with the run across an erased point
RECURSIVE splitFromJoin(_, _, _, _, _, _)
splitFromJoin(points, path, radius, i, segments, cur) ==
  IF i > Len(points)
    THEN IF Len(cur) >= 2 THEN Append(segments, cur) ELSE segments
  ELSE IF ~nearPath(points[i], path, radius)
    THEN splitFromJoin(points, path, radius, i + 1, segments, Append(cur, points[i]))
  ELSE splitFromJoin(points, path, radius, i + 1, segments, cur)

\* the second loop of splitPolylineByEraser: segments collected so far, the
\* run being built, and the index of the next point
RECURSIVE splitFrom(_, _, _, _, _, _)
splitFrom(points, path, radius, i, segments, cur) ==
  IF i > Len(points)
    THEN IF Len(cur) >= 2 THEN Append(segments, cur) ELSE segments
  ELSE IF ~nearPath(points[i], path, radius)
    THEN splitFrom(points, path, radius, i + 1, segments, Append(cur, points[i]))
  ELSE splitFrom(points, path, radius, i + 1,
                 IF Len(cur) >= 2 THEN Append(segments, cur) ELSE segments, <<>>)

\* points and the returned segments hold (x, y) pairs: points.length < 4 is
\* fewer than two pairs
splitPolylineByEraser(points, path, radius) ==
  IF Len(points) < 2 THEN <<points>>
  ELSE SelectSeq(splitFrom(points, path, radius, 1, <<>>, <<>>),
                 LAMBDA seg : Len(seg) >= 2)

RECURSIVE eraseLines(_, _, _, _)
eraseLines(prev, i, path, t) ==
  IF i > Len(prev) THEN <<>>
  ELSE LET l == prev[i]
           segments == splitPolylineByEraser(l.points, path,
                                             RMax(t, Rat(l.strokeWidth, 2)))
       IN [k \in 1..Len(segments) |-> [l EXCEPT !.points = segments[k]]]
            \o eraseLines(prev, i + 1, path, t)

\* some sampled point of the path hits the shape
pathHits(kind, s, path, t) ==
  \E j \in 1..Len(path) :
    CASE kind = "rect" -> rectHit(s, path[j].x, path[j].y, t)
      [] kind = "circle" -> circleHit(s, path[j].x, path[j].y, t)
      [] kind = "line" -> lineHit(s, path[j].x, path[j].y, RMax(t, Rat(s.strokeWidth, 2)))
      [] kind = "arrow" -> lineHit(s, path[j].x, path[j].y, RMax(t, Rat(s.strokeWidth, 2)))
      [] kind = "triangle" -> triangleHit(s, path[j].x, path[j].y, t)

\* prev.filter(s => !path.some(...)): filter skips empty slots
eraseShapes(kind, prev, path, t) ==
  SelectSeq(prev, LAMBDA s : s # Hole /\ ~pathHits(kind, s, path, t))

\* an updater of applyEraserDeletion reads a field of null or undefined:
\* the render that runs it throws
eraseThrows(S) ==
  \E kind \in {"rect", "circle", "line", "arrow", "triangle"} :
    \E j \in 1..Len(Arr(S, kind)) : Arr(S, kind)[j] \in {Null, Undefined}

\* the six sequences after the updaters applyEraserDeletion queues have run
\* on S; path holds points [x, y], and the code's path.length < 2 is an empty
\* path
applyEraserDeletion(S, path, threshold) ==
  IF Len(path) < 1 THEN S
  ELSE LET filtered(t, kept) ==
             [lines |-> eraseLines(S.lines, 1, path, t),
              rects |-> kept["rect"], circles |-> kept["circle"],
              simpleLines |-> kept["line"], arrows |-> kept["arrow"],
              triangles |-> kept["triangle"]]
       IN filtered(RMax(I(2), threshold),
                   [kind \in {"rect", "circle", "line", "arrow", "triangle"} |->
                      eraseShapes(kind, Arr(S, kind), path, RMax(I(2), threshold))])

\* Math.floor(Math.hypot(dx, dy) / step) for the integers dx, dy
FloorDist(dx, dy, step) ==
  LET d2 == I(dx * dx + dy * dy)
  IN CHOOSE n \in 0..(2 * (Abs(dx) + Abs(dy)) + 1) :
       /\ ~RootLt(d2, RMul(I(n), step))
       /\ RootLt(d2, RMul(I(n + 1), step))

\* the loop of onPointerMove's eraser branch from sample i on: the path and
\* the six sequences after samples i..steps
RECURSIVE eraseSteps(_, _, _, _, _, _, _)
eraseSteps(S, ep, l, dx, dy, steps, i) ==
  IF i > steps THEN [S |-> S, ep |-> ep]
  ELSE LET sample == [x |-> RAdd(l.x, Rat(dx * i, steps)),
                      y |-> RAdd(l.y, Rat(dy * i, steps))]
       IN eraseSteps(applyEraserDeletion(S, <<ep[Len(ep)], sample>>, I(strokeWidth)),
                     Append(ep, sample), l, dx, dy, steps, i + 1)

---------------------------------------------------------------------------
(* Pointer-down *)

Pt(pos) == [x |-> I(pos.x), y |-> I(pos.y)]

startDrawing(pos) ==
  IF tool = "pen" THEN
    /\ lines' = Append(lines, [tool |-> "pen", points |-> <<<<pos.x, pos.y>>>>,
                               color |-> color, strokeWidth |-> strokeWidth,
                               brushStyle |-> brushStyle])
    /\ drawing' = TRUE
    /\ UNCHANGED <<rects, circles, simpleLines, arrows, triangles, draft>>
  ELSE
    /\ draft' =
         CASE tool = "rect" ->
                [type |-> "rect", x |-> pos.x, y |-> pos.y, width |-> 0, height |-> 0]
           [] tool = "circle" ->
                [type |-> "circle", x |-> pos.x, y |-> pos.y, radius |-> Sqrt(0)]
           [] tool \in {"line", "arrow"} ->
                [type |-> tool, x1 |-> pos.x, y1 |-> pos.y, x2 |-> pos.x, y2 |-> pos.y]
           [] tool = "triangle" ->
                [type |-> "triangle", x1 |-> pos.x, y1 |-> pos.y, x2 |-> pos.x,
                 y2 |-> pos.y, x3 |-> pos.x, y3 |-> pos.y]
    /\ UNCHANGED <<scene, drawing>>

\* a select branch that also selects and moves a freehand stroke
selectDownAnyKind(pos) ==
  LET grab(hit, hitShape) ==
     IF hit = Threw THEN
       /\ threw' = TRUE
       /\ UNCHANGED <<selected, interaction, history>>
     ELSE IF selected # Null /\ hit.hit THEN
       /\ history' = pushHistory
       /\ interaction' = [mode |-> "resizing", handle |-> hit.id, start |-> pos,
                          original |-> At(Arr(Scene, selected.kind), selected.idx)]
       /\ threw' = FALSE
       /\ UNCHANGED selected
     ELSE IF hitShape = Threw THEN
       /\ threw' = TRUE
       /\ UNCHANGED <<selected, interaction, history>>
     ELSE IF hitShape # Null THEN
       /\ history' = pushHistory
       /\ selected' = [kind |-> hitShape.kind, idx |-> hitShape.idx]
       /\ interaction' = [mode |-> "moving", start |-> pos,
                          original |-> At(Arr(Scene, hitShape.kind), hitShape.idx)]
       /\ threw' = FALSE
     ELSE
       /\ selected' = Null
       /\ interaction' = Null
       /\ threw' = FALSE
       /\ UNCHANGED history
  IN grab(IF selected # Null THEN handleUnderPointer(pos.x, pos.y) ELSE NoHit,
          shapeUnderPointer(pos.x, pos.y))

\* the select branch of onPointerDown
selectDown(pos) ==
  LET grab(hit, hitShape) ==
     IF hit = Threw THEN
       /\ threw' = TRUE
       /\ UNCHANGED <<selected, interaction, history>>
     ELSE IF selected # Null /\ hit.hit THEN
       /\ history' = pushHistory
       /\ interaction' = [mode |-> "resizing", handle |-> hit.id, start |-> pos,
                          original |-> At(Arr(Scene, selected.kind), selected.idx)]
       /\ threw' = FALSE
       /\ UNCHANGED selected
     ELSE IF hitShape = Threw THEN
       /\ threw' = TRUE
       /\ UNCHANGED <<selected, interaction, history>>
     ELSE IF hitShape # Null /\ hitShape.kind # "pen" THEN
       /\ history' = pushHistory
       /\ selected' = [kind |-> hitShape.kind, idx |-> hitShape.idx]
       /\ interaction' = [mode |-> "moving", start |-> pos,
                          original |-> At(Arr(Scene, hitShape.kind), hitShape.idx)]
       /\ threw' = FALSE
     ELSE
       /\ selected' = Null
       /\ interaction' = Null
       /\ threw' = FALSE
       /\ UNCHANGED history
  IN grab(IF selected # Null THEN handleUnderPointer(pos.x, pos.y) ELSE NoHit,
          shapeUnderPointer(pos.x, pos.y))

\* the pointer goes down over world point p
onPointerDown(p) ==
  LET c == ClientOf(p)
      pos == WorldInt(getWorldPoint(c.x, c.y))
  IN IF tool = "pan" THEN
       /\ isPanning' = TRUE
       /\ panLast' = c
       /\ threw' = FALSE
       /\ UNCHANGED <<props, view, scene, draft, drawing, erasingPath, laser,
                      selected, interaction, history, unmounted>>
     ELSE IF tool = "select" THEN
       /\ selectDown(pos)
       /\ UNCHANGED <<props, view, pan, scene, draft, drawing, erasingPath, laser,
                      unmounted>>
     ELSE
       /\ history' = IF tool # "laser" THEN pushHistory ELSE history
       /\ IF tool = "eraser" THEN
            /\ erasingPath' = <<Pt(pos)>>
            /\ drawing' = TRUE
            /\ UNCHANGED <<scene, draft, laser>>
          ELSE IF tool = "laser" THEN
            /\ laser' = Append(laser, pos)
            /\ drawing' = TRUE
            /\ UNCHANGED <<scene, draft, erasingPath>>
          ELSE
            /\ startDrawing(pos)
            /\ UNCHANGED <<erasingPath, laser>>
       /\ threw' = FALSE
       /\ UNCHANGED <<props, view, pan, selected, interaction, unmounted>>

---------------------------------------------------------------------------
(* Pointer-move *)

\* updateDrawing with the third vertex of a triangle mirrored in the first
updateDrawingPointMirror(pos) ==
  IF tool = "pen" THEN
    /\ lines' =
         IF ~drawing \/ Len(lines) = 0 THEN lines
         ELSE LET last == lines[Len(lines)]
              IN Append(SubSeq(lines, 1, Len(lines) - 1),
                        [last EXCEPT !.points = Append(last.points, <<pos.x, pos.y>>)])
    /\ UNCHANGED draft
  ELSE IF tool = "eraser" \/ draft = Null THEN
    UNCHANGED <<lines, draft>>
  ELSE
    /\ draft' =
         CASE draft.type = "rect" ->
                [draft EXCEPT !.width = pos.x - draft.x, !.height = pos.y - draft.y]
           [] draft.type = "circle" ->
                LET dx == pos.x - draft.x
                    dy == pos.y - draft.y
                IN [draft EXCEPT !.radius = hypot(dx, dy)]
           [] draft.type \in {"line", "arrow"} ->
                [draft EXCEPT !.x2 = pos.x, !.y2 = pos.y]
           [] draft.type = "triangle" ->
                [draft EXCEPT !.x2 = pos.x, !.y2 = pos.y,
                              !.x3 = draft.x1 * 2 - pos.x,
                              !.y3 = draft.y1 * 2 - pos.y]
    /\ UNCHANGED lines

updateDrawing(pos) ==
  IF tool = "pen" THEN
    /\ lines' =
         IF ~drawing \/ Len(lines) = 0 THEN lines
         ELSE LET last == lines[Len(lines)]
              IN Append(SubSeq(lines, 1, Len(lines) - 1),
                        [last EXCEPT !.points = Append(last.points, <<pos.x, pos.y>>)])
    /\ UNCHANGED draft
  ELSE IF tool = "eraser" \/ draft = Null THEN
    UNCHANGED <<lines, draft>>
  ELSE
    /\ draft' =
         CASE draft.type = "rect" ->
                [draft EXCEPT !.width = pos.x - draft.x, !.height = pos.y - draft.y]
           [] draft.type = "circle" ->
                LET dx == pos.x - draft.x
                    dy == pos.y - draft.y
                IN [draft EXCEPT !.radius = hypot(dx, dy)]
           [] draft.type \in {"line", "arrow"} ->
                [draft EXCEPT !.x2 = pos.x, !.y2 = pos.y]
           [] draft.type = "triangle" ->
                [draft EXCEPT !.x2 = pos.x, !.y2 = pos.y,
                              !.x3 = draft.x1 * 2 - pos.x, !.y3 = pos.y]
    /\ UNCHANGED lines

\* the shape the moving mode writes: the baseline translated by (dx, dy)
movedShape(kind, o, dx, dy) ==
  CASE kind \in {"rect", "circle"} -> [o EXCEPT !.x = o.x + dx, !.y = o.y + dy]
    [] kind \in {"line", "arrow"} ->
         [o EXCEPT !.x1 = o.x1 + dx, !.y1 = o.y1 + dy, !.x2 = o.x2 + dx, !.y2 = o.y2 + dy]
    [] kind = "triangle" ->
         [o EXCEPT !.x1 = o.x1 + dx, !.y1 = o.y1 + dy, !.x2 = o.x2 + dx,
                   !.y2 = o.y2 + dy, !.x3 = o.x3 + dx, !.y3 = o.y3 + dy]

\* resizedRect without the clamps
resizedRectUnclamped(o, handle, dx, dy) ==
  LET bx0 == Min2(o.x, o.x + o.width)
      by0 == Min2(o.y, o.y + o.height)
      bx1 == Max2(o.x, o.x + o.width)
      by1 == Max2(o.y, o.y + o.height)
      x0 == IF handle \in {0, 3} THEN bx0 + dx ELSE bx0
      y0 == IF handle \in {0, 1} THEN by0 + dy ELSE by0
      x1 == IF handle \in {1, 2} THEN bx1 + dx ELSE bx1
      y1 == IF handle \in {2, 3} THEN by1 + dy ELSE by1
  IN [o EXCEPT !.x = x0, !.y = y0, !.width = x1 - x0, !.height = y1 - y0]

resizedRect(o, handle, dx, dy) ==
  LET bx0 == Min2(o.x, o.x + o.width)
      by0 == Min2(o.y, o.y + o.height)
      bx1 == Max2(o.x, o.x + o.width)
      by1 == Max2(o.y, o.y + o.height)
      x0 == IF handle \in {0, 3} THEN Min2(bx1 - 1, bx0 + dx) ELSE bx0
      y0 == IF handle \in {0, 1} THEN Min2(by1 - 1, by0 + dy) ELSE by0
      x1 == IF handle \in {1, 2} THEN Max2(x0 + 1, bx1 + dx) ELSE bx1
      y1 == IF handle \in {2, 3} THEN Max2(y0 + 1, by1 + dy) ELSE by1
  IN [o EXCEPT !.x = x0, !.y = y0, !.width = x1 - x0, !.height = y1 - y0]

\* resizedCircle without the least radius
resizedCircleUnclamped(o, pos) ==
  LET dx == pos.x - o.x
      dy == pos.y - o.y
  IN [o EXCEPT !.radius = hypot(dx, dy)]

resizedCircle(o, pos) ==
  LET dx == pos.x - o.x
      dy == pos.y - o.y
  IN [o EXCEPT !.radius = Sqrt(Max2(1, hypot(dx, dy).sq))]

resizedLine(o, handle, dx, dy) ==
  IF handle = 0 \/ handle = 3
    THEN [o EXCEPT !.x1 = o.x1 + dx, !.y1 = o.y1 + dy]
  ELSE [o EXCEPT !.x2 = o.x2 + dx, !.y2 = o.y2 + dy]

\* the last of the vertices at the least distance from start
nearestVertexLast(o, start) ==
  LET d(i) == CASE i = 0 -> (o.x1 - start.x) * (o.x1 - start.x) + (o.y1 - start.y) * (o.y1 - start.y)
                [] i = 1 -> (o.x2 - start.x) * (o.x2 - start.x) + (o.y2 - start.y) * (o.y2 - start.y)
                [] i = 2 -> (o.x3 - start.x) * (o.x3 - start.x) + (o.y3 - start.y) * (o.y3 - start.y)
  IN CHOOSE i \in 0..2 : /\ \A j \in 0..2 : d(i) <= d(j)
                         /\ \A j \in (i + 1)..2 : d(j) > d(i)

\* the vertex (0, 1 or 2) nearest to start: the first one at the least distance
nearestVertex(o, start) ==
  LET d(i) == CASE i = 0 -> (o.x1 - start.x) * (o.x1 - start.x) + (o.y1 - start.y) * (o.y1 - start.y)
                [] i = 1 -> (o.x2 - start.x) * (o.x2 - start.x) + (o.y2 - start.y) * (o.y2 - start.y)
                [] i = 2 -> (o.x3 - start.x) * (o.x3 - start.x) + (o.y3 - start.y) * (o.y3 - start.y)
  IN CHOOSE i \in 0..2 : /\ \A j \in 0..2 : d(i) <= d(j)
                         /\ \A j \in 0..(i - 1) : d(j) > d(i)

resizedTriangle(o, start, dx, dy) ==
  LET idx == nearestVertex(o, start)
  IN CASE idx = 0 -> [o EXCEPT !.x1 = o.x1 + dx, !.y1 = o.y1 + dy]
       [] idx = 1 -> [o EXCEPT !.x2 = o.x2 + dx, !.y2 = o.y2 + dy]
       [] idx = 2 -> [o EXCEPT !.x3 = o.x3 + dx, !.y3 = o.y3 + dy]

\* the shape a pointer-move at pos writes at the selected index
interactionShape(kind, ia, pos) ==
  LET dx == pos.x - ia.start.x
      dy == pos.y - ia.start.y
  IN IF ia.mode = "moving" THEN movedShape(kind, ia.original, dx, dy)
     ELSE CASE kind = "rect" -> resizedRect(ia.original, ia.handle, dx, dy)
            [] kind = "circle" -> resizedCircle(ia.original, pos)
            [] kind \in {"line", "arrow"} -> resizedLine(ia.original, ia.handle, dx, dy)
            [] kind = "triangle" -> resizedTriangle(ia.original, ia.start, dx, dy)

\* the select branch of onPointerMove: one sequence is written at selected.idx
selectMove(pos) ==
  LET kind == selected.kind
      v == interactionShape(kind, interaction, pos)
      put(k, arr) == IF k = kind THEN ArraySet(arr, selected.idx, v) ELSE arr
  IN /\ rects' = put("rect", rects)
     /\ circles' = put("circle", circles)
     /\ simpleLines' = put("line", simpleLines)
     /\ arrows' = put("arrow", arrows)
     /\ triangles' = put("triangle", triangles)
     /\ UNCHANGED lines

\* the laser branch: a sample is added once the pointer has moved more than
\* 0.5 / scale from the last one, and the buffer is cut back
laserMove(pos) ==
  LET last == IF Len(laser) = 0 THEN Undefined ELSE laser[Len(laser)]
      far == \/ last = Undefined
             \/ ~RootLe(I((pos.x - last.x) * (pos.x - last.x)
                          + (pos.y - last.y) * (pos.y - last.y)),
                        RDiv(Rat(1, 2), scale))
      pushed == Append(laser, pos)
  IN laser' = IF ~far THEN laser
              ELSE IF Len(pushed) > 1200 THEN SubSeq(pushed, 201, Len(pushed))
              ELSE pushed

\* the eraser branch: the path is extended by interpolated samples and the
\* deletion is applied for each
eraserMove(pos) ==
  IF Len(erasingPath) = 0 THEN
    /\ erasingPath' = <<Pt(pos)>>
    /\ UNCHANGED <<scene, unmounted>>
  ELSE
    LET l == erasingPath[Len(erasingPath)]
        \* the last point of the path is a pointer position: an integer point
        dx == pos.x - l.x.n
        dy == pos.y - l.y.n
        step == RMax(Rat(4, 5), RMul(I(strokeWidth), Rat(2, 5)))
        erased(steps) ==
          LET rendered(out) ==
                /\ erasingPath' = out.ep
                /\ lines' = out.S.lines
                /\ rects' = out.S.rects
                /\ circles' = out.S.circles
                /\ simpleLines' = out.S.simpleLines
                /\ arrows' = out.S.arrows
                /\ triangles' = out.S.triangles
                /\ UNCHANGED unmounted
          IN rendered(eraseSteps(Scene, erasingPath, l, dx, dy, steps, 1))
    IN IF eraseThrows(Scene) THEN
         /\ unmounted' = TRUE
         /\ UNCHANGED <<scene, erasingPath>>
       ELSE erased(Max2(1, FloorDist(dx, dy, step)))

\* the pointer moves over world point p
onPointerMove(p) ==
  LET c == ClientOf(p)
      pos == WorldInt(getWorldPoint(c.x, c.y))
  IN /\ threw' = FALSE
     /\ UNCHANGED <<props, scale, isPanning, drawing, selected, interaction, history>>
     /\ IF tool = "pan" /\ isPanning /\ panLast # Null THEN
          /\ offset' = [x |-> RAdd(offset.x, RSub(c.x, panLast.x)),
                        y |-> RAdd(offset.y, RSub(c.y, panLast.y))]
          /\ panLast' = c
          /\ UNCHANGED <<scene, draft, erasingPath, laser, unmounted>>
        ELSE IF tool = "select" /\ interaction # Null /\ selected # Null THEN
          /\ selectMove(pos)
          /\ UNCHANGED <<offset, panLast, draft, erasingPath, laser, unmounted>>
        ELSE IF tool = "laser" /\ drawing THEN
          /\ laserMove(pos)
          /\ UNCHANGED <<offset, panLast, scene, draft, erasingPath, unmounted>>
        ELSE IF tool = "eraser" /\ drawing THEN
          /\ eraserMove(pos)
          /\ UNCHANGED <<offset, panLast, draft, laser>>
        ELSE IF drawing \/ draft # Null THEN
          /\ updateDrawing(pos)
          /\ UNCHANGED <<offset, panLast, rects, circles, simpleLines, arrows,
                         triangles, erasingPath, laser, unmounted>>
        ELSE
          UNCHANGED <<offset, panLast, scene, draft, erasingPath, laser, unmounted>>

---------------------------------------------------------------------------
(* Pointer-up, pointer-leave, undo, wheel *)

\* the committed shape with the style the application starts with
committedInitialStyle ==
  LET style == [stroke |-> "#111111", strokeWidth |-> 3, dashed |-> FALSE]
  IN CASE draft.type = "rect" ->
            [x |-> draft.x, y |-> draft.y, width |-> draft.width, height |-> draft.height,
             stroke |-> style.stroke, strokeWidth |-> style.strokeWidth,
             dashed |-> style.dashed]
       [] draft.type = "circle" ->
            [x |-> draft.x, y |-> draft.y, radius |-> draft.radius,
             stroke |-> style.stroke, strokeWidth |-> style.strokeWidth,
             dashed |-> style.dashed]
       [] draft.type \in {"line", "arrow"} ->
            [x1 |-> draft.x1, y1 |-> draft.y1, x2 |-> draft.x2, y2 |-> draft.y2,
             stroke |-> style.stroke, strokeWidth |-> style.strokeWidth,
             dashed |-> style.dashed]
       [] draft.type = "triangle" ->
            [x1 |-> draft.x1, y1 |-> draft.y1, x2 |-> draft.x2, y2 |-> draft.y2,
             x3 |-> draft.x3, y3 |-> draft.y3,
             stroke |-> style.stroke, strokeWidth |-> style.strokeWidth,
             dashed |-> style.dashed]

\* the shape endDrawing commits for the draft
committed ==
  LET style == [stroke |-> color, strokeWidth |-> strokeWidth,
                dashed |-> (brushStyle = "dashed")]
  IN CASE draft.type = "rect" ->
            [x |-> draft.x, y |-> draft.y, width |-> draft.width, height |-> draft.height,
             stroke |-> style.stroke, strokeWidth |-> style.strokeWidth,
             dashed |-> style.dashed]
       [] draft.type = "circle" ->
            [x |-> draft.x, y |-> draft.y, radius |-> draft.radius,
             stroke |-> style.stroke, strokeWidth |-> style.strokeWidth,
             dashed |-> style.dashed]
       [] draft.type \in {"line", "arrow"} ->
            [x1 |-> draft.x1, y1 |-> draft.y1, x2 |-> draft.x2, y2 |-> draft.y2,
             stroke |-> style.stroke, strokeWidth |-> style.strokeWidth,
             dashed |-> style.dashed]
       [] draft.type = "triangle" ->
            [x1 |-> draft.x1, y1 |-> draft.y1, x2 |-> draft.x2, y2 |-> draft.y2,
             x3 |-> draft.x3, y3 |-> draft.y3,
             stroke |-> style.stroke, strokeWidth |-> style.strokeWidth,
             dashed |-> style.dashed]

endDrawing ==
  IF tool = "eraser" THEN
    /\ erasingPath' = <<>>
    /\ drawing' = FALSE
    /\ UNCHANGED <<scene, draft>>
  ELSE IF tool = "laser" THEN
    /\ drawing' = FALSE
    /\ UNCHANGED <<scene, draft, erasingPath>>
  ELSE
    /\ drawing' = FALSE
    /\ UNCHANGED erasingPath
    /\ IF draft = Null THEN UNCHANGED <<scene, draft>>
       ELSE LET add(type, arr) ==
                  IF draft.type = type THEN SpreadAppend(arr, committed) ELSE arr
            IN /\ rects' = add("rect", rects)
               /\ circles' = add("circle", circles)
               /\ simpleLines' = add("line", simpleLines)
               /\ arrows' = add("arrow", arrows)
               /\ triangles' = add("triangle", triangles)
               /\ draft' = Null
               /\ UNCHANGED lines

onPointerUp ==
  /\ threw' = FALSE
  /\ UNCHANGED <<props, view, laser, selected, history, unmounted>>
  /\ IF tool = "pan" THEN
       /\ isPanning' = FALSE
       /\ panLast' = Null
       /\ UNCHANGED <<scene, draft, drawing, erasingPath, interaction>>
     ELSE IF tool = "select" THEN
       /\ interaction' = Null
       /\ UNCHANGED <<pan, scene, draft, drawing, erasingPath>>
     ELSE IF tool = "laser" THEN
       /\ drawing' = FALSE
       /\ UNCHANGED <<pan, scene, draft, erasingPath, interaction>>
     ELSE
       /\ endDrawing
       /\ UNCHANGED <<pan, interaction>>

\* a pointer-leave that takes a snapshot
onPointerLeavePushes ==
  /\ drawing' = FALSE
  /\ isPanning' = FALSE
  /\ panLast' = Null
  /\ interaction' = Null
  /\ draft' = Null
  /\ threw' = FALSE
  /\ history' = pushHistory
  /\ UNCHANGED <<props, view, scene, erasingPath, laser, selected, unmounted>>

\* a pointer-leave that ends the gesture but keeps the Draft
onPointerLeaveKeepsDraft ==
  /\ drawing' = FALSE
  /\ isPanning' = FALSE
  /\ panLast' = Null
  /\ interaction' = Null
  /\ threw' = FALSE
  /\ UNCHANGED <<props, view, scene, draft, erasingPath, laser, selected, history, unmounted>>

onPointerLeave ==
  /\ drawing' = FALSE
  /\ isPanning' = FALSE
  /\ panLast' = Null
  /\ interaction' = Null
  /\ draft' = Null
  /\ threw' = FALSE
  /\ UNCHANGED <<props, view, scene, erasingPath, laser, selected, history, unmounted>>

\* an undo that reads the popped snapshot without testing that there is one
undoUnguarded ==
  /\ threw' = (Len(history) = 0)
  /\ UNCHANGED <<props, view, pan, drawing, erasingPath, laser, unmounted>>
  /\ IF Len(history) = 0 THEN
       UNCHANGED <<scene, draft, selected, interaction, history>>
     ELSE
       LET snap == history[Len(history)]
       IN /\ history' = SubSeq(history, 1, Len(history) - 1)
          /\ lines' = snap.lines
          /\ rects' = snap.rects
          /\ circles' = snap.circles
          /\ simpleLines' = snap.simpleLines
          /\ arrows' = snap.arrows
          /\ triangles' = snap.triangles
          /\ draft' = Null
          /\ selected' = Null
          /\ interaction' = Null

\* an undo that also drops the snapshots on top of the stack that equal the
\* scene, and installs the first one below them
undoSkipsUnchanged ==
  /\ threw' = FALSE
  /\ UNCHANGED <<props, view, pan, drawing, erasingPath, laser, unmounted>>
  /\ IF Len(history) = 0 THEN
       UNCHANGED <<scene, draft, selected, interaction, history>>
     ELSE
       LET differ == {j \in 1..Len(history) : history[j] # Snapshot(Scene)}
           top == IF differ = {} THEN 1 ELSE CHOOSE j \in differ : \A k \in differ : k <= j
           snap == history[top]
       IN /\ history' = SubSeq(history, 1, top - 1)
          /\ lines' = snap.lines
          /\ rects' = snap.rects
          /\ circles' = snap.circles
          /\ simpleLines' = snap.simpleLines
          /\ arrows' = snap.arrows
          /\ triangles' = snap.triangles
          /\ draft' = Null
          /\ selected' = Null
          /\ interaction' = Null

\* an undo that leaves the Selection as it is
undoKeepsSelection ==
  /\ threw' = FALSE
  /\ UNCHANGED <<props, view, pan, drawing, erasingPath, laser, unmounted>>
  /\ IF Len(history) = 0 THEN
       UNCHANGED <<scene, draft, selected, interaction, history>>
     ELSE
       LET snap == history[Len(history)]
       IN /\ history' = SubSeq(history, 1, Len(history) - 1)
          /\ lines' = snap.lines
          /\ rects' = snap.rects
          /\ circles' = snap.circles
          /\ simpleLines' = snap.simpleLines
          /\ arrows' = snap.arrows
          /\ triangles' = snap.triangles
          /\ draft' = Null
          /\ interaction' = Null
          /\ UNCHANGED selected

\* an undo that restores the newest snapshot and drops the one below it too
undoPopsTwo ==
  /\ threw' = FALSE
  /\ UNCHANGED <<props, view, pan, drawing, erasingPath, laser, unmounted>>
  /\ IF Len(history) = 0 THEN
       UNCHANGED <<scene, draft, selected, interaction, history>>
     ELSE
       LET snap == history[Len(history)]
       IN /\ history' = SubSeq(history, 1, Len(history) - 2)
          /\ lines' = snap.lines
          /\ rects' = snap.rects
          /\ circles' = snap.circles
          /\ simpleLines' = snap.simpleLines
          /\ arrows' = snap.arrows
          /\ triangles' = snap.triangles
          /\ draft' = Null
          /\ selected' = Null
          /\ interaction' = Null

\* onKey for Ctrl/Cmd+Z
undo ==
  /\ threw' = FALSE
  /\ UNCHANGED <<props, view, pan, drawing, erasingPath, laser, unmounted>>
  /\ IF Len(history) = 0 THEN
       UNCHANGED <<scene, draft, selected, interaction, history>>
     ELSE
       LET snap == history[Len(history)]
       IN /\ history' = SubSeq(history, 1, Len(history) - 1)
          /\ lines' = snap.lines
          /\ rects' = snap.rects
          /\ circles' = snap.circles
          /\ simpleLines' = snap.simpleLines
          /\ arrows' = snap.arrows
          /\ triangles' = snap.triangles
          /\ draft' = Null
          /\ selected' = Null
          /\ interaction' = Null

\* a wheel event over world point p; direction is 1 (deltaY <= 0, zoom in) or
\* -1 (deltaY > 0, zoom out)
handleWheel(p, direction) ==
  LET pointerCss == ClientOf(p)
      before == getWorldPoint(pointerCss.x, pointerCss.y)
      newScale == newScaleOf(direction)
  IN /\ scale' = newScale
     /\ offset' = [x |-> RSub(pointerCss.x, RMul(before.x, newScale)),
                   y |-> RSub(pointerCss.y, RMul(before.y, newScale))]
     /\ threw' = FALSE
     /\ UNCHANGED <<props, pan, scene, draft, drawing, erasingPath, laser, selected,
                    interaction, history, unmounted>>

\* the toolbar: WhiteboardApp's setTool, setColor, setStrokeWidth, setBrushStyle
rest == <<view, pan, scene, draft, drawing, erasingPath, laser, selected, interaction,
          history, threw, unmounted>>
setTool(t) == tool' = t /\ UNCHANGED <<color, strokeWidth, brushStyle, rest>>
setColor(c) == color' = c /\ UNCHANGED <<tool, strokeWidth, brushStyle, rest>>
setStrokeWidth(w) == strokeWidth' = w /\ UNCHANGED <<tool, color, brushStyle, rest>>
setBrushStyle(b) == brushStyle' = b /\ UNCHANGED <<tool, color, strokeWidth, rest>>

---------------------------------------------------------------------------
(* The machine *)

\* everything but the viewport
InitRest ==
  /\ tool = "pen" /\ color = "#111111" /\ strokeWidth = 3 /\ brushStyle = "round"
  /\ isPanning = FALSE /\ panLast = Null
  /\ lines = <<>> /\ rects = <<>> /\ circles = <<>>
  /\ simpleLines = <<>> /\ arrows = <<>> /\ triangles = <<>>
  /\ draft = Null /\ drawing = FALSE /\ erasingPath = <<>> /\ laser = <<>>
  /\ selected = Null /\ interaction = Null
  /\ history = <<>>
  /\ threw = FALSE /\ unmounted = FALSE

InitProgram ==
  /\ InitRest
  /\ scale = I(1) /\ offset = [x |-> I(0), y |-> I(0)]

InitGhost ==
  /\ nDown = 0 /\ nMove = 0 /\ nAux = 0
  /\ gest = Null
  /\ pushLog = history
  /\ query = Null /\ answer = Null

Init == InitProgram /\ InitGhost

\* the gestures that change the scene: freehand drawing, drawing a shape,
\* erasing, moving and resizing the selection
GestureKinds == {"pen", "shape", "erase", "move", "resize"}

\* what the gesture that a pointer-down starts does
gestureKind ==
  CASE tool = "pen" -> "pen"
    [] tool = "eraser" -> "erase"
    [] tool \in {"rect", "circle", "line", "arrow", "triangle"} -> "shape"
    [] tool = "select" ->
         IF threw' THEN "none"
         ELSE IF interaction' = Null THEN "click"
         ELSE IF interaction'.mode = "moving" THEN "move" ELSE "resize"
    [] OTHER -> tool

PointerDown(p) ==
  /\ ~unmounted
  /\ onPointerDown(p)
  /\ nDown' = nDown + 1 /\ nMove' = 0 /\ UNCHANGED nAux
  /\ gest' = [kind |-> gestureKind, tool |-> tool, before |-> Scene, down |-> p,
              last |-> p, phase |-> "down"]
  /\ pushLog' = IF gestureKind \in GestureKinds THEN Append(pushLog, Snapshot(Scene))
               ELSE pushLog
  /\ UNCHANGED <<query, answer>>

PointerMove(p) ==
  /\ ~unmounted
  /\ onPointerMove(p)
  /\ nMove' = nMove + 1 /\ UNCHANGED <<nDown, nAux>>
  /\ gest' = IF gest # Null /\ gest.phase = "down" THEN [gest EXCEPT !.last = p]
             ELSE Null
  /\ UNCHANGED <<pushLog, query, answer>>

PointerUp ==
  /\ ~unmounted
  /\ onPointerUp
  /\ gest' = IF gest # Null /\ gest.phase = "down" THEN [gest EXCEPT !.phase = "up"]
             ELSE Null
  /\ UNCHANGED <<counters, pushLog, query, answer>>

PointerLeave ==
  /\ ~unmounted
  /\ onPointerLeave
  /\ gest' = IF gest # Null /\ gest.phase = "down" THEN [gest EXCEPT !.phase = "left"]
             ELSE Null
  /\ UNCHANGED <<counters, pushLog, query, answer>>

Undo ==
  /\ ~unmounted
  /\ undo
  /\ gest' = IF gest # Null /\ gest.phase = "up" THEN [gest EXCEPT !.phase = "undone"]
             ELSE IF gest # Null /\ gest.phase = "left"
               THEN [gest EXCEPT !.phase = "leftUndone"]
             ELSE Null
  /\ pushLog' = history'
  /\ UNCHANGED <<counters, query, answer>>

Wheel(p, direction) ==
  /\ ~unmounted
  /\ handleWheel(p, direction)
  /\ nAux' = nAux + 1 /\ UNCHANGED <<nDown, nMove>>
  /\ gest' = Null
  /\ UNCHANGED <<pushLog, query, answer>>

SetTool(t) ==
  /\ ~unmounted /\ t # tool
  /\ setTool(t)
  /\ gest' = IF gest # Null /\ gest.phase = "down"
             THEN [gest EXCEPT !.kind = "switched", !.tool = "switched"]
             ELSE Null
  /\ UNCHANGED <<counters, pushLog, query, answer>>

SetStyle ==
  /\ ~unmounted
  /\ \/ \E c \in Colors \ {color} : setColor(c)
     \/ \E w \in Widths \ {strokeWidth} : setStrokeWidth(w)
     \/ \E b \in BrushStyles \ {brushStyle} : setBrushStyle(b)
  /\ nAux' = nAux + 1 /\ UNCHANGED <<nDown, nMove>>
  /\ gest' = Null
  /\ UNCHANGED <<pushLog, query, answer>>

\* the whole machine, from construction
Next ==
  \/ \E p \in Grid : nDown < MaxDown /\ PointerDown(p)
  \/ \E p \in Grid : nMove < MaxMove /\ PointerMove(p)
  \/ PointerUp
  \/ PointerLeave
  \/ Undo
  \/ \E p \in Grid, direction \in {-1, 1} : nAux < MaxAux /\ Wheel(p, direction)
  \/ \E t \in Tools : SetTool(t)
  \/ nAux < MaxAux /\ SetStyle

Spec == Init /\ [][Next]_vars

---------------------------------------------------------------------------
(* Editing a drawn scene *)

\* The shape of a kind drawn by one gesture from <<0, 0>> to <<3, 4>> with
\* the style the application starts with; the kind "tap" is a freehand
\* stroke drawn without a pointer-move, which holds the one point <<0, 0>>.
drawnShape(kind) ==
  CASE kind = "pen" ->
         [tool |-> "pen", points |-> <<<<0, 0>>, <<3, 4>>>>, color |-> "#111111",
          strokeWidth |-> 3, brushStyle |-> "round"]
    [] kind = "tap" ->
         [tool |-> "pen", points |-> <<<<0, 0>>>>, color |-> "#111111",
          strokeWidth |-> 3, brushStyle |-> "round"]
    [] kind = "rect" ->
         [x |-> 0, y |-> 0, width |-> 3, height |-> 4,
          stroke |-> "#111111", strokeWidth |-> 3, dashed |-> FALSE]
    [] kind = "circle" ->
         [x |-> 0, y |-> 0, radius |-> Sqrt(25),
          stroke |-> "#111111", strokeWidth |-> 3, dashed |-> FALSE]
    [] kind \in {"line", "arrow"} ->
         [x1 |-> 0, y1 |-> 0, x2 |-> 3, y2 |-> 4,
          stroke |-> "#111111", strokeWidth |-> 3, dashed |-> FALSE]
    [] kind = "triangle" ->
         [x1 |-> 0, y1 |-> 0, x2 |-> 3, y2 |-> 4, x3 |-> -3, y3 |-> 4,
          stroke |-> "#111111", strokeWidth |-> 3, dashed |-> FALSE]

drawnScene(kind) ==
  [lines |-> IF kind \in {"pen", "tap"} THEN <<drawnShape(kind)>> ELSE <<>>,
   rects |-> IF kind = "rect" THEN <<drawnShape(kind)>> ELSE <<>>,
   circles |-> IF kind = "circle" THEN <<drawnShape(kind)>> ELSE <<>>,
   simpleLines |-> IF kind = "line" THEN <<drawnShape(kind)>> ELSE <<>>,
   arrows |-> IF kind = "arrow" THEN <<drawnShape(kind)>> ELSE <<>>,
   triangles |-> IF kind = "triangle" THEN <<drawnShape(kind)>> ELSE <<>>]

\* The program after: tool `kind` (pen for a tap), pointer-down at <<0, 0>>,
\* pointer-move to <<3, 4>> (none for a tap), pointer-up, tool "select" and,
\* if sel, pointer-down and pointer-up at <<0, 0>>, which selects the shape.
\* A freehand stroke cannot be selected.
Drawn(kind, sel) ==
  /\ tool = "select" /\ color = "#111111" /\ strokeWidth = 3 /\ brushStyle = "round"
  /\ scale = I(1) /\ offset = [x |-> I(0), y |-> I(0)]
  /\ isPanning = FALSE /\ panLast = Null
  /\ lines = drawnScene(kind).lines /\ rects = drawnScene(kind).rects
  /\ circles = drawnScene(kind).circles /\ simpleLines = drawnScene(kind).simpleLines
  /\ arrows = drawnScene(kind).arrows /\ triangles = drawnScene(kind).triangles
  /\ draft = Null /\ drawing = FALSE /\ erasingPath = <<>> /\ laser = <<>>
  /\ selected = IF sel THEN [kind |-> kind, idx |-> 0] ELSE Null
  /\ interaction = Null
  /\ history = IF sel THEN <<Snapshot(EmptyScene), Snapshot(drawnScene(kind))>>
               ELSE <<Snapshot(EmptyScene)>>
  /\ threw = FALSE /\ unmounted = FALSE

InitEdit ==
  /\ \E kind \in {"pen", "tap", "rect", "circle", "line", "arrow", "triangle"},
        sel \in BOOLEAN :
       (sel => kind \notin {"pen", "tap"}) /\ Drawn(kind, sel)
  /\ InitGhost

NextEdit ==
  \/ \E p \in Grid : nDown < MaxDown /\ PointerDown(p)
  \/ \E p \in Grid : nMove < MaxMove /\ PointerMove(p)
  \/ PointerUp
  \/ PointerLeave
  \/ Undo
  \/ \E t \in Tools : SetTool(t)

SpecEdit == InitEdit /\ [][NextEdit]_vars

---------------------------------------------------------------------------
(* A selection whose shape has been erased *)

\* two shapes of a kind, each drawn from <<0, 0>> to <<3, 4>>
twoShapes(kind) ==
  [lines |-> <<>>,
   rects |-> IF kind = "rect" THEN <<drawnShape(kind), drawnShape(kind)>> ELSE <<>>,
   circles |-> <<>>, simpleLines |-> <<>>, arrows |-> <<>>,
   triangles |-> IF kind = "triangle" THEN <<drawnShape(kind), drawnShape(kind)>> ELSE <<>>]

\* The program after: tool `kind`, two gestures from <<0, 0>> to <<3, 4>>;
\* tool "select", pointer-down at <<0, 0>>, which selects the shape of index
\* 1 and starts moving it; tool "eraser", pointer-down at <<0, 0>> and a
\* pointer-move at <<0, 0>>, which erases both shapes.  The selection and the
\* interaction still name index 1.
Stale(kind) ==
  /\ tool = "eraser" /\ color = "#111111" /\ strokeWidth = 3 /\ brushStyle = "round"
  /\ scale = I(1) /\ offset = [x |-> I(0), y |-> I(0)]
  /\ isPanning = FALSE /\ panLast = Null
  /\ lines = <<>> /\ rects = <<>> /\ circles = <<>>
  /\ simpleLines = <<>> /\ arrows = <<>> /\ triangles = <<>>
  /\ draft = Null /\ drawing = TRUE
  /\ erasingPath = <<Pt([x |-> 0, y |-> 0]), Pt([x |-> 0, y |-> 0])>>
  /\ laser = <<>>
  /\ selected = [kind |-> kind, idx |-> 1]
  /\ interaction = [mode |-> "moving", start |-> [x |-> 0, y |-> 0],
                    original |-> drawnShape(kind)]
  /\ history = <<Snapshot(EmptyScene), Snapshot(drawnScene(kind)),
                 Snapshot(twoShapes(kind)), Snapshot(twoShapes(kind))>>
  /\ threw = FALSE /\ unmounted = FALSE

InitStale == (\E kind \in {"triangle", "rect"} : Stale(kind)) /\ InitGhost

NextStale ==
  \/ \E p \in Grid : nDown < MaxDown /\ PointerDown(p)
  \/ \E p \in Grid : nMove < MaxMove /\ PointerMove(p)
  \/ PointerUp
  \/ PointerLeave
  \/ Undo
  \/ \E t \in {"select", "rect"} : SetTool(t)

SpecStale == InitStale /\ [][NextStale]_vars

\* the eraser taken up again after the move has written at the stale index
NextStaleErase ==
  \/ \E p \in Grid : nDown < MaxDown /\ PointerDown(p)
  \/ \E p \in Grid : nMove < MaxMove /\ PointerMove(p)
  \/ PointerUp
  \/ Undo
  \/ \E t \in {"select", "eraser"} : SetTool(t)

SpecStaleErase == InitStale /\ [][NextStaleErase]_vars

---------------------------------------------------------------------------
(* Moving and resizing a selected shape *)

\* the points a shape is drawn between
Corners == {<<0, 0>>, <<16, 0>>, <<16, 16>>, <<0, 16>>}
\* world points under the pointer while the shape is moved or resized
ResizePoints == {-16, 0, 16} \X {-16, 0, 16}

\* the shape that tool `kind`, pointer-down at a, pointer-move to b and
\* pointer-up append, with the style of construction
shapeDrawn(kind, a, b) ==
  LET style == [stroke |-> "#111111", strokeWidth |-> 3, dashed |-> FALSE]
  IN CASE kind = "rect" ->
            [x |-> a[1], y |-> a[2], width |-> b[1] - a[1], height |-> b[2] - a[2],
             stroke |-> style.stroke, strokeWidth |-> style.strokeWidth,
             dashed |-> style.dashed]
       [] kind = "circle" ->
            [x |-> a[1], y |-> a[2], radius |-> hypot(b[1] - a[1], b[2] - a[2]),
             stroke |-> style.stroke, strokeWidth |-> style.strokeWidth,
             dashed |-> style.dashed]
       [] kind \in {"line", "arrow"} ->
            [x1 |-> a[1], y1 |-> a[2], x2 |-> b[1], y2 |-> b[2],
             stroke |-> style.stroke, strokeWidth |-> style.strokeWidth,
             dashed |-> style.dashed]
       [] kind = "triangle" ->
            [x1 |-> a[1], y1 |-> a[2], x2 |-> b[1], y2 |-> b[2],
             x3 |-> a[1] * 2 - b[1], y3 |-> b[2],
             stroke |-> style.stroke, strokeWidth |-> style.strokeWidth,
             dashed |-> style.dashed]

\* The program after: if over, tool pen, pointer-down at <<0, 0>>,
\* pointer-move to <<-16, -16>>, pointer-up; tool `kind`, pointer-down at a,
\* pointer-move to b (none if a = b), pointer-up; tool "select", pointer-down
\* and pointer-up at a point of the shape's border away from the stroke,
\* which selects the shape.
ShapeSelected(kind, a, b, over) ==
  LET stroke == [tool |-> "pen", points |-> <<<<0, 0>>, <<-16, -16>>>>,
                 color |-> "#111111", strokeWidth |-> 3, brushStyle |-> "round"]
      first == [EmptyScene EXCEPT !.lines = IF over THEN <<stroke>> ELSE <<>>]
      arr(k) == IF k = kind THEN <<shapeDrawn(kind, a, b)>> ELSE <<>>
  IN /\ tool = "select" /\ color = "#111111" /\ strokeWidth = 3 /\ brushStyle = "round"
     /\ scale = I(1) /\ offset = [x |-> I(0), y |-> I(0)]
     /\ isPanning = FALSE /\ panLast = Null
     /\ lines = first.lines /\ rects = arr("rect") /\ circles = arr("circle")
     /\ simpleLines = arr("line") /\ arrows = arr("arrow") /\ triangles = arr("triangle")
     /\ draft = Null /\ drawing = FALSE /\ erasingPath = <<>> /\ laser = <<>>
     /\ selected = [kind |-> kind, idx |-> 0]
     /\ interaction = Null
     /\ history = (IF over THEN <<Snapshot(EmptyScene)>> ELSE <<>>)
                     \o <<Snapshot(first), Snapshot(Scene)>>
     /\ threw = FALSE /\ unmounted = FALSE

InitResize ==
  /\ \E kind \in {"rect", "circle", "line", "arrow", "triangle"},
        a \in Corners, b \in Corners, over \in BOOLEAN : ShapeSelected(kind, a, b, over)
  /\ InitGhost

NextResize ==
  \/ \E p \in ResizePoints : nDown < MaxDown /\ PointerDown(p)
  \/ \E p \in ResizePoints : nMove < MaxMove /\ PointerMove(p)
  \/ PointerUp
  \/ PointerLeave

SpecResize == InitResize /\ [][NextResize]_vars

----------------------------------------------------------------------------
(* Tool changes around a gesture *)

\* A tool change that keeps the record of the gesture in every phase, so that
\* a pointer-move can be told to come after the pointer-up or pointer-leave.
SetToolTracked(t) ==
  /\ ~unmounted /\ t # tool
  /\ setTool(t)
  /\ gest' = IF gest # Null THEN [gest EXCEPT !.kind = "switched", !.tool = "switched"]
             ELSE Null
  /\ UNCHANGED <<counters, pushLog, query, answer>>

NextTools ==
  \/ \E p \in Grid : nDown < MaxDown /\ PointerDown(p)
  \/ \E p \in Grid : nMove < MaxMove /\ PointerMove(p)
  \/ PointerUp
  \/ PointerLeave
  \/ \E t \in Tools : SetToolTracked(t)

SpecTools == Init /\ [][NextTools]_vars

----------------------------------------------------------------------------
(* The laser trail at its cap *)

\* pointer-downs and samples of the trail in a run at the cap
MaxLaserDown == 2
TrailLengths == {1199, 1200}

\* the trail of n samples laid by the pointer going to and fro
trail(n) ==
  [i \in 1..n |-> IF i % 2 = 1 THEN [x |-> 0, y |-> 0] ELSE [x |-> 3, y |-> 4]]

\* The program after: a rectangle drawn, tool "laser", pointer-down at
\* <<0, 0>>, n - 1 pointer-moves in turn to <<3, 4>> and <<0, 0>> with no frame
\* rendered in between, pointer-up.
Lasered(n) ==
  /\ tool = "laser" /\ color = "#111111" /\ strokeWidth = 3 /\ brushStyle = "round"
  /\ scale = I(1) /\ offset = [x |-> I(0), y |-> I(0)]
  /\ isPanning = FALSE /\ panLast = Null
  /\ lines = <<>> /\ rects = <<drawnShape("rect")>> /\ circles = <<>>
  /\ simpleLines = <<>> /\ arrows = <<>> /\ triangles = <<>>
  /\ draft = Null /\ drawing = FALSE /\ erasingPath = <<>> /\ laser = trail(n)
  /\ selected = Null /\ interaction = Null
  /\ history = <<Snapshot(EmptyScene)>>
  /\ threw = FALSE /\ unmounted = FALSE

InitLaser == (\E n \in TrailLengths : Lasered(n)) /\ InitGhost

\* the frame's pruning of the trail: the samples older than the time to live
\* are its k oldest (the clock is not modelled; k is the frame's input)
pruneLaser(k) ==
  /\ laser' = SubSeq(laser, k + 1, Len(laser))
  /\ UNCHANGED <<props, view, pan, scene, draft, drawing, erasingPath, selected,
                 interaction, history, threw, unmounted>>

Frame(k) ==
  /\ ~unmounted
  /\ pruneLaser(k)
  /\ nAux' = nAux + 1 /\ UNCHANGED <<nDown, nMove>>
  /\ UNCHANGED <<gest, pushLog, query, answer>>

NextLaser ==
  \/ \E p \in Grid : nDown < MaxLaserDown /\ PointerDown(p)
  \/ \E p \in Grid : nMove < MaxMove /\ PointerMove(p)
  \/ PointerUp
  \/ PointerLeave
  \/ \E k \in {1, Len(laser)} : nAux < MaxAux /\ k >= 1 /\ Frame(k)

SpecLaser == InitLaser /\ [][NextLaser]_vars

---------------------------------------------------------------------------
(* Filling the history: pen taps at one point, then undo *)

NextHist ==
  \/ nDown < MaxPush /\ PointerDown(<<0, 0>>)
  \/ PointerUp
  \/ nDown = MaxPush /\ Undo

SpecHist == Init /\ [][NextHist]_vars

---------------------------------------------------------------------------
(* Zooming at the limits *)

\* The scale is 1 at construction, MAX_SCALE after 23 wheel events zooming in
\* and MIN_SCALE after 15 zooming out (the clamp returns the limit itself); at
\* the client point <<0, 0>> these events leave the offset 0.
InitZoom ==
  /\ InitRest
  /\ scale \in {MIN_SCALE, I(1), MAX_SCALE}
  /\ offset = [x |-> I(0), y |-> I(0)]
  /\ InitGhost

NextZoom ==
  \/ \E p \in Grid : nDown < MaxDown /\ PointerDown(p)
  \/ \E p \in Grid : nMove < MaxMove /\ PointerMove(p)
  \/ PointerUp
  \/ PointerLeave
  \/ Undo
  \/ \E p \in Grid, direction \in {-1, 1} : nAux < MaxAux /\ Wheel(p, direction)
  \/ \E t \in {"pen", "pan", "select"} : SetTool(t)
  \/ nAux < MaxAux /\ SetStyle

SpecZoom == InitZoom /\ [][NextZoom]_vars

----------------------------------------------------------------------------
(* Hit tests at the limits of the scale *)

\* pointer positions on the drawn shape and 2 and 5 world units to the right
\* of the drawn rectangle
HitPoints == {<<0, 0>>, <<5, 0>>, <<8, 0>>}

\* The program after: a shape of a kind drawn as in Drawn, wheel events at the
\* client point <<0, 0>> that bring the scale to s (the offset stays 0), and
\* tool t chosen.
Zoomed(kind, s, t) ==
  /\ tool = t /\ color = "#111111" /\ strokeWidth = 3 /\ brushStyle = "round"
  /\ scale = s /\ offset = [x |-> I(0), y |-> I(0)]
  /\ isPanning = FALSE /\ panLast = Null
  /\ lines = drawnScene(kind).lines /\ rects = drawnScene(kind).rects
  /\ circles = drawnScene(kind).circles /\ simpleLines = drawnScene(kind).simpleLines
  /\ arrows = drawnScene(kind).arrows /\ triangles = drawnScene(kind).triangles
  /\ draft = Null /\ drawing = FALSE /\ erasingPath = <<>> /\ laser = <<>>
  /\ selected = Null /\ interaction = Null
  /\ history = <<Snapshot(EmptyScene)>>
  /\ threw = FALSE /\ unmounted = FALSE

InitZoomHit ==
  /\ \E kind \in {"pen", "rect", "circle", "line", "arrow", "triangle"},
        s \in {MIN_SCALE, I(1), MAX_SCALE}, t \in {"select", "eraser"} :
       Zoomed(kind, s, t)
  /\ InitGhost

NextZoomHit ==
  \/ \E p \in HitPoints : nDown < MaxDown /\ PointerDown(p)
  \/ \E p \in HitPoints : nMove < MaxMove /\ PointerMove(p)
  \/ PointerUp
  \/ PointerLeave

SpecZoomHit == InitZoomHit /\ [][NextZoomHit]_vars

---------------------------------------------------------------------------
(* The eraser's segmenter on its own *)

\* a straight stroke of n points, 10 apart
Stroke(n) == [i \in 1..n |-> <<10 * (i - 1), 0>>]

\* eraser samples: on the points of the longest stroke, and half way between
\* its first two
ErasePoints ==
  {[x |-> I(10 * (i - 1)), y |-> I(0)] : i \in 1..MaxStroke} \cup {[x |-> I(5), y |-> I(0)]}
ErasePaths == UNION {[1..n -> ErasePoints] : n \in 1..MaxPath}
\* radii below half the distance of two points, that half itself, and one
\* that covers every stroke
Radii == {I(2), I(4), I(5), I(10 * MaxStroke)}

\* query is the input of the last call and answer what it returned
Split(points, path, radius) ==
  /\ query' = [points |-> points, path |-> path, radius |-> radius]
  /\ answer' = splitPolylineByEraser(points, path, radius)
  /\ UNCHANGED <<props, view, pan, scene, draft, drawing, erasingPath, laser, selected,
                 interaction, history, threw, unmounted, counters, gest, pushLog>>

\* one call in a run
NextSplit ==
  \E n \in 1..MaxStroke, path \in ErasePaths, radius \in Radii :
    query = Null /\ Split(Stroke(n), path, radius)

SpecSplit == Init /\ [][NextSplit]_vars

---------------------------------------------------------------------------
(* The viewport in double precision *)

\* The scale and the offset are JavaScript numbers, IEEE 754 binary64.  The
\* sections above compute them as rationals, which is what the handlers
\* compute wherever the results are representable; this section computes the
\* wheel handler bit for bit, every operation rounded to nearest, ties to
\* even.

\* A natural number of any size: its digits in base 2^15, least significant
\* first, without leading zeros.
Limb == 2^15

RECURSIVE BNorm(_)
BNorm(a) == IF Len(a) > 0 /\ a[Len(a)] = 0 THEN BNorm(SubSeq(a, 1, Len(a) - 1)) ELSE a

RECURSIVE BAddFrom(_, _, _, _)
BAddFrom(a, b, i, carry) ==
  IF i > Len(a) /\ i > Len(b)
    THEN IF carry = 0 THEN <<>> ELSE <<carry>>
  ELSE LET t == (IF i <= Len(a) THEN a[i] ELSE 0) + (IF i <= Len(b) THEN b[i] ELSE 0) + carry
       IN <<t % Limb>> \o BAddFrom(a, b, i + 1, t \div Limb)
BAdd(a, b) == BAddFrom(a, b, 1, 0)

\* a - b for a >= b
RECURSIVE BSubFrom(_, _, _, _)
BSubFrom(a, b, i, borrow) ==
  IF i > Len(a) THEN <<>>
  ELSE LET t == a[i] - (IF i <= Len(b) THEN b[i] ELSE 0) - borrow
       IN <<t % Limb>> \o BSubFrom(a, b, i + 1, IF t < 0 THEN 1 ELSE 0)
BSub(a, b) == BNorm(BSubFrom(a, b, 1, 0))

RECURSIVE BLessFrom(_, _, _)
BLessFrom(a, b, i) ==
  IF i = 0 THEN FALSE
  ELSE IF a[i] # b[i] THEN a[i] < b[i] ELSE BLessFrom(a, b, i - 1)
BLess(a, b) == IF Len(a) # Len(b) THEN Len(a) < Len(b) ELSE BLessFrom(a, b, Len(a))

RECURSIVE BMulSmallFrom(_, _, _, _)
BMulSmallFrom(a, k, i, carry) ==
  IF i > Len(a) THEN IF carry = 0 THEN <<>> ELSE <<carry>>
  ELSE LET t == a[i] * k + carry
       IN <<t % Limb>> \o BMulSmallFrom(a, k, i + 1, t \div Limb)
BMulSmall(a, k) == IF k = 0 THEN <<>> ELSE BMulSmallFrom(a, k, 1, 0)

BShiftLimbs(a, n) == IF Len(a) = 0 THEN a ELSE [j \in 1..n |-> 0] \o a

RECURSIVE BMulFrom(_, _, _)
BMulFrom(a, b, j) ==
  IF j > Len(b) THEN <<>>
  ELSE BAdd(BShiftLimbs(BMulSmall(a, b[j]), j - 1), BMulFrom(a, b, j + 1))

\* a * 2^k
BShl(a, k) == BShiftLimbs(BMulSmall(a, 2^(k % 15)), k \div 15)

RECURSIVE BitLenSmall(_)
BitLenSmall(n) == IF n = 0 THEN 0 ELSE 1 + BitLenSmall(n \div 2)
BBitLen(a) == IF Len(a) = 0 THEN 0 ELSE 15 * (Len(a) - 1) + BitLenSmall(a[Len(a)])

\* a \div 2^k and a % 2^k
BShr(a, k) ==
  LET n == Len(a) - (k \div 15)
      b == k % 15
      at(j) == IF j <= Len(a) THEN a[j] ELSE 0
  IN IF n <= 0 THEN <<>>
     ELSE BNorm([j \in 1..n |->
                  (at(j + (k \div 15)) \div 2^b) + (at(j + (k \div 15) + 1) % 2^b) * 2^(15 - b)])
BLow(a, k) ==
  LET n == k \div 15
      b == k % 15
  IN IF Len(a) <= n THEN a
     ELSE BNorm([j \in 1..(n + 1) |-> IF j <= n THEN a[j] ELSE a[j] % 2^b])

\* Long division of n * 2^k by d, for n < 2 * d: the quotient and the
\* remainder after k more bits, st holding those of the bits already read.
RECURSIVE BDivBits(_, _, _)
BDivBits(d, k, st) ==
  IF k = 0 THEN st
  ELSE LET r2 == BMulSmall(st.r, 2)
           q2 == BMulSmall(st.q, 2)
       IN IF BLess(r2, d)
            THEN BDivBits(d, k - 1, [q |-> q2, r |-> r2])
            ELSE BDivBits(d, k - 1, [q |-> BAdd(q2, <<1>>), r |-> BSub(r2, d)])

\* A double that is finite and not subnormal: s * m * 2^e with s the sign
\* (0 for zero) and 2^52 <= m < 2^53.
Zero == [s |-> 0, m |-> <<>>, e |-> 0]

\* round to nearest, ties to even: the double nearest to s * (q + t) * 2^e,
\* where 0 < t < 1 if sticky and t = 0 otherwise
Round(s, q, e, sticky) ==
  LET len == BBitLen(q)
  IN IF len = 0 THEN Zero
     ELSE IF len <= 53 THEN [s |-> s, m |-> BShl(q, 53 - len), e |-> e - (53 - len)]
     ELSE LET drop == len - 53
              cut == [q |-> BShr(q, drop), r |-> BLow(q, drop)]
              half == BShl(<<1>>, drop - 1)
              up == \/ BLess(half, cut.r)
                    \/ cut.r = half /\ (sticky \/ cut.q[1] % 2 = 1)
              m == IF up THEN BAdd(cut.q, <<1>>) ELSE cut.q
          IN IF BBitLen(m) > 53
               THEN [s |-> s, m |-> BShr(m, 1), e |-> e + drop + 1]
               ELSE [s |-> s, m |-> m, e |-> e + drop]

\* the double of an integer
Num(n) == IF n = 0 THEN Zero ELSE Round(IF n < 0 THEN -1 ELSE 1,
             BNorm(<<Abs(n) % Limb, (Abs(n) \div Limb) % Limb, Abs(n) \div (Limb * Limb)>>),
             0, FALSE)

NumMul(a, b) ==
  IF a.s = 0 \/ b.s = 0 THEN Zero
  ELSE Round(a.s * b.s, BMulFrom(a.m, b.m, 1), a.e + b.e, FALSE)

\* a / b for b # 0: the quotient to 55 or 56 bits, and whether the division
\* left a remainder
NumDiv(a, b) ==
  IF a.s = 0 THEN Zero
  ELSE LET d == BDivBits(b.m, 55, IF BLess(a.m, b.m) THEN [q |-> <<>>, r |-> a.m]
                                   ELSE [q |-> <<1>>, r |-> BSub(a.m, b.m)])
       IN Round(a.s * b.s, d.q, a.e - b.e - 55, d.r # <<>>)

NumAdd(a, b) ==
  IF a.s = 0 THEN b
  ELSE IF b.s = 0 THEN a
  ELSE LET e == Min2(a.e, b.e)
           x == BShl(a.m, a.e - e)
           y == BShl(b.m, b.e - e)
       IN IF a.s = b.s THEN Round(a.s, BAdd(x, y), e, FALSE)
          ELSE IF x = y THEN Zero
          ELSE IF BLess(x, y) THEN Round(b.s, BSub(y, x), e, FALSE)
          ELSE Round(a.s, BSub(x, y), e, FALSE)

NumSub(a, b) == NumAdd(a, [b EXCEPT !.s = -b.s])
NumLe(a, b) == NumSub(a, b).s <= 0
\* Math.min, Math.max
NumMin(a, b) == IF NumLe(a, b) THEN a ELSE b
NumMax(a, b) == IF NumLe(a, b) THEN b ELSE a

\* the value of a decimal literal: the double nearest to the rational
Dbl(r) == NumDiv(Num(r.n), Num(r.d))
MIN_SCALE_NUM == Dbl(MIN_SCALE)
MAX_SCALE_NUM == Dbl(MAX_SCALE)
SCALE_BY_NUM == Dbl(SCALE_BY)

getWorldPointNum(clientX, clientY) ==
  [x |-> NumDiv(NumSub(clientX, offset.x), scale),
   y |-> NumDiv(NumSub(clientY, offset.y), scale)]

\* newScale of handleWheel for the scale sc
newScaleNum(sc, direction) ==
  LET raw == IF direction > 0 THEN NumMul(sc, SCALE_BY_NUM) ELSE NumDiv(sc, SCALE_BY_NUM)
  IN NumMin(MAX_SCALE_NUM, NumMax(MIN_SCALE_NUM, raw))

\* handleWheel with the offset computed at the old scale
handleWheelNumOldScale(c, direction) ==
  LET zoomed(pointerCss, before, newScale) ==
        /\ scale' = newScale
        /\ offset' = [x |-> NumSub(pointerCss.x, NumMul(before.x, scale)),
                      y |-> NumSub(pointerCss.y, NumMul(before.y, scale))]
        /\ threw' = FALSE
        /\ UNCHANGED <<props, pan, scene, draft, drawing, erasingPath, laser, selected,
                       interaction, history, unmounted>>
  IN zoomed([x |-> Num(c[1]), y |-> Num(c[2])],
            getWorldPointNum(Num(c[1]), Num(c[2])), newScaleNum(scale, direction))

\* a wheel event at the client point c (whole pixels)
handleWheelNum(c, direction) ==
  LET zoomed(pointerCss, before, newScale) ==
        /\ scale' = newScale
        /\ offset' = [x |-> NumSub(pointerCss.x, NumMul(before.x, newScale)),
                      y |-> NumSub(pointerCss.y, NumMul(before.y, newScale))]
        /\ threw' = FALSE
        /\ UNCHANGED <<props, pan, scene, draft, drawing, erasingPath, laser, selected,
                       interaction, history, unmounted>>
  IN zoomed([x |-> Num(c[1]), y |-> Num(c[2])],
            getWorldPointNum(Num(c[1]), Num(c[2])), newScaleNum(scale, direction))

\* the scales after up to n more wheel events in one direction at the
\* client point <<0, 0>>, from the scale sc and the offset 0 (which such
\* events leave 0)
RECURSIVE zoomedScales(_, _, _)
zoomedScales(sc, n, direction) ==
  IF n = 0 \/ sc.s = 0 THEN {sc}
  ELSE {sc} \cup zoomedScales(newScaleNum(sc, direction), n - 1, direction)
ZoomedScales == zoomedScales(Num(1), MaxIn, 1) \cup zoomedScales(Num(1), MaxOut, -1)

\* client points of the wheel events
Clients == {<<0, 3>>, <<3, 4>>, <<7, 16>>}
\* offsets left by a drag with the pan tool, in whole pixels
Panned == {<<0, 0>>, <<-7, 5>>}

\* the viewports after zooming at the origin and then panning
InitFloat ==
  /\ InitRest
  /\ scale \in ZoomedScales
  /\ offset \in {[x |-> Num(d[1]), y |-> Num(d[2])] : d \in Panned}
  /\ InitGhost

\* query is the client point of the last wheel event and answer the world
\* point that was under it before the event
WheelNum(c, direction) ==
  /\ ~unmounted
  /\ handleWheelNum(c, direction)
  /\ nAux' = nAux + 1 /\ UNCHANGED <<nDown, nMove>>
  /\ gest' = Null
  /\ query' = c
  /\ answer' = getWorldPointNum(Num(c[1]), Num(c[2]))
  /\ UNCHANGED pushLog

NextFloat ==
  \E c \in Clients, direction \in {-1, 1} : nAux < MaxWheel /\ WheelNum(c, direction)

SpecFloat == InitFloat /\ [][NextFloat]_vars

---------------------------------------------------------------------------
(* Properties *)

\* C1: after a gesture of one of the five scene-changing kinds (pointer-down,
\* pointer-moves, pointer-up) and then undo, the six sequences equal their
\* value immediately before the gesture's pointer-down.
C1_UndoExact ==
  (gest # Null /\ gest.phase = "undone" /\ gest.kind \in GestureKinds)
    => Scene = gest.before

\* a gesture on a scene with an empty slot has been undone
C1_UndoneOverHole ==
  /\ gest # Null /\ gest.phase = "undone" /\ gest.kind \in GestureKinds
  /\ \E j \in 1..Len(gest.before.rects) : gest.before.rects[j] = Hole

\* the last n elements of a sequence
Last(seq, n) == SubSeq(seq, Max2(1, Len(seq) - n + 1), Len(seq))

\* C2: the history never holds more than 100 snapshots, and once more than
\* 100 have been pushed with no undo in between it holds exactly the 100 most
\* recently pushed ones, in push order.
C2_HistoryBound ==
  /\ Len(history) <= MAX_HISTORY
  /\ Len(pushLog) > MAX_HISTORY => history = Last(pushLog, MAX_HISTORY)

\* 150 snapshots have been pushed, all different, and 100 are on the stack
C2_Pushed150 ==
  /\ Len(pushLog) = 150 /\ Len(history) = 100
  /\ \A i, j \in 1..150 : i # j => pushLog[i] # pushLog[j]

C8_RectDrawn ==
  (gest # Null /\ gest.tool = "rect") =>
    /\ gest.phase = "up" =>
         /\ Len(rects) = Len(gest.before.rects) + 1
         /\ LET r == rects[Len(rects)]
            IN /\ r.x = gest.down[1] /\ r.y = gest.down[2]
               /\ r.width = gest.last[1] - gest.down[1]
               /\ r.height = gest.last[2] - gest.down[2]
    /\ gest.phase = "undone" => rects = gest.before.rects

\* a rect gesture over a rectangle sequence with an empty slot has been undone
C8_UndoneOverHole ==
  /\ gest # Null /\ gest.phase = "undone" /\ gest.tool = "rect"
  /\ \E j \in 1..Len(gest.before.rects) : gest.before.rects[j] = Hole

\* v is the value of the root r
IsRoot(r, v) == v >= 0 /\ v * v = r.sq

\* C9: a circle gesture from A to B appends exactly one circle centred at A
\* whose radius squared is dx*dx + dy*dy for (dx, dy) = B - A; from <<0, 0>>
\* to <<3, 4>> the radius is 5.
C9_CircleDrawn ==
  (gest # Null /\ gest.tool = "circle" /\ gest.phase = "up") =>
    /\ Len(circles) = Len(gest.before.circles) + 1
    /\ LET c == circles[Len(circles)]
           dx == gest.last[1] - gest.down[1]
           dy == gest.last[2] - gest.down[2]
       IN /\ c.x = gest.down[1] /\ c.y = gest.down[2]
          /\ c.radius = Sqrt(dx * dx + dy * dy)
          /\ (gest.down = <<0, 0>> /\ gest.last = <<3, 4>>) => IsRoot(c.radius, 5)

\* a circle has been drawn from <<0, 0>> to <<3, 4>>, through another point
C9_Circle345 ==
  /\ gest # Null /\ gest.tool = "circle" /\ gest.phase = "up"
  /\ gest.down = <<0, 0>> /\ gest.last = <<3, 4>> /\ nMove = 2
  /\ circles[Len(circles)].radius = Sqrt(25)

\* C10: an undo on an empty history changes neither the six sequences, the
\* Draft, the Selection, the interaction, the viewport nor the history, and
\* raises no error.
C10_UndoEmptyNoOp ==
  [][(Len(history) = 0 /\ Undo) =>
       /\ UNCHANGED <<scene, draft, selected, interaction, view, history>>
       /\ ~threw' /\ ~unmounted']_vars

\* a pan gesture that moved the viewport has been followed by an undo on an
\* empty history
C10_UndoneNothing ==
  /\ gest # Null /\ gest.kind = "pan" /\ gest.phase = "undone"
  /\ history = <<>> /\ offset # [x |-> I(0), y |-> I(0)]

\* C4 (as stated): after a wheel event at the client point p the world point
\* under p, computed with the new scale and offset, equals the one computed
\* before the event.
C4_ZoomToPointerEqual ==
  query # Null => getWorldPointNum(Num(query[1]), Num(query[2])) = answer

\* |a - b| < 2^-50 * max(|a|, |c|): a few units in the last place of the
\* larger of a and c
CloseTo(a, b, c) ==
  LET d == NumSub(a, b)
  IN d.s = 0 \/ (a.s # 0 /\ d.e + 51 <= a.e) \/ (c.s # 0 /\ d.e + 51 <= c.e)

\* C4 (amended): after a wheel event at the client point p, clamped or not,
\* the world point under p computed with the new scale and offset differs
\* from the one computed before the event by less than 2^-50 times the larger
\* of its own magnitude and the new offset's, in each coordinate.
C4_ZoomToPointerClose ==
  query # Null =>
    LET after == getWorldPointNum(Num(query[1]), Num(query[2]))
    IN /\ CloseTo(answer.x, after.x, offset.x)
       /\ CloseTo(answer.y, after.y, offset.y)

\* a wheel event that was clamped at MAX_SCALE and left the world point under
\* the pointer one unit in the last place off
C4_ClampedAndOff ==
  /\ query # Null
  /\ scale = MAX_SCALE_NUM
  /\ getWorldPointNum(Num(query[1]), Num(query[2])) # answer

\* C5: the scale always lies in [0.5, 3]; a wheel event sets it to
\* min(3, max(0.5, scale * 1.05)) zooming in and to
\* min(3, max(0.5, scale / 1.05)) zooming out; no other event changes it.
C5_ScaleClamped ==
  /\ [](RLe(Rat(1, 2), scale) /\ RLe(scale, I(3)))
  /\ [][/\ \A p \in Grid, direction \in {-1, 1} :
            (nAux' = nAux + 1 /\ Wheel(p, direction)) =>
              scale' = RMin(I(3), RMax(Rat(1, 2),
                         IF direction > 0 THEN RMul(scale, Rat(105, 100))
                         ELSE RDiv(scale, Rat(105, 100))))
        /\ ~(nAux' = nAux + 1 /\ \E p \in Grid, direction \in {-1, 1} : Wheel(p, direction))
             => scale' = scale]_vars

\* a wheel event at the upper limit, zooming in, has left the scale there
C5_ClampedAtMax ==
  /\ nAux = 1 /\ scale = MAX_SCALE
  /\ color = "#111111" /\ strokeWidth = 3 /\ brushStyle = "round"

\* one eraser sample on the middle point of a stroke of n points, with a
\* radius below half the distance of two points
MidpointErased(n) ==
  /\ query # Null /\ query.points = Stroke(n)
  /\ query.path = <<[x |-> I(10 * ((n - 1) \div 2)), y |-> I(0)]>>
  /\ RLt(query.radius, I(5))

\* the stroke point i lies within the radius of some eraser sample
Erased(i) ==
  \E j \in 1..Len(query.path) :
    LET dx == RSub(I(query.points[i][1]), query.path[j].x)
        dy == RSub(I(query.points[i][2]), query.path[j].y)
    IN RLe(RAdd(RMul(dx, dx), RMul(dy, dy)), RMul(query.radius, query.radius))

\* the maximal runs of at least 2 consecutive points that are not erased
Runs ==
  LET n == Len(query.points)
  IN {r \in (1..n) \X (1..n) :
        /\ r[1] < r[2]
        /\ \A i \in r[1]..r[2] : ~Erased(i)
        /\ r[1] = 1 \/ Erased(r[1] - 1)
        /\ r[2] = n \/ Erased(r[2] + 1)}

\* C6 (as stated): erasing the midpoint of a 3-point straight stroke with a
\* radius below half the segment length yields exactly two strokes of at
\* least 2 points each; erasing the entire stroke yields none.
C6_MidpointGivesTwo ==
  /\ MidpointErased(3) => Len(answer) = 2 /\ \A k \in 1..2 : Len(answer[k]) >= 2
  /\ (query # Null /\ \A i \in 1..Len(query.points) : Erased(i)) => answer = <<>>

\* C6 (amended): of a stroke of at least 2 points the segmenter returns, in
\* order, the maximal runs of at least 2 consecutive points no eraser sample
\* is within the radius of.  Erasing the midpoint of a 3-point straight
\* stroke with a radius below half the segment length yields no stroke,
\* erasing that of a 5-point stroke yields the two strokes of its first two
\* and its last two points, and erasing every point yields no stroke.
C6_Segmentation ==
  (query # Null /\ Len(query.points) >= 2) =>
    /\ Len(answer) = Cardinality(Runs)
    /\ \A k \in 1..Len(answer) :
         \E r \in Runs : /\ answer[k] = SubSeq(query.points, r[1], r[2])
                         /\ Cardinality({q \in Runs : q[1] < r[1]}) = k - 1
    /\ MidpointErased(3) => answer = <<>>
    /\ MidpointErased(5) => answer = <<SubSeq(Stroke(5), 1, 2), SubSeq(Stroke(5), 4, 5)>>
    /\ (\A i \in 1..Len(query.points) : Erased(i)) => answer = <<>>

\* the midpoint of a 3-point stroke was erased and nothing is left of it
C6_ThreePointsGone == MidpointErased(3) /\ answer = <<>>

\* the indices of the shapes of a kind that the select tool's test hits at p
HitIndices(kind, p) ==
  {i \in 0..(Len(Arr(Scene, kind)) - 1) :
     /\ IsShape(Arr(Scene, kind)[i + 1])
     /\ selectHit(kind, Arr(Scene, kind)[i + 1], p[1], p[2])}

Priority == <<"pen", "triangle", "arrow", "line", "circle", "rect">>

\* C7: shapeUnderPointer returns the hit of the first kind, in the order
\* freehand, triangle, arrow, line, circle, rectangle, that has any hit, and
\* within that kind the hit shape with the largest index.
C7_HitPriority ==
  \A p \in Grid, k \in 1..6 :
    (HitIndices(Priority[k], p) # {} /\ \A j \in 1..(k - 1) : HitIndices(Priority[j], p) = {})
      => \E i \in HitIndices(Priority[k], p) :
           /\ \A h \in HitIndices(Priority[k], p) : h <= i
           /\ shapeUnderPointer(p[1], p[2]) = [kind |-> Priority[k], idx |-> i]

\* a rectangle lies under the pointer, no shape of an earlier kind does, and
\* the query reads an empty slot of the triangles before it gets there
C7_ThrowsOverHole ==
  \E p \in Grid :
    /\ HitIndices("rect", p) # {}
    /\ \A j \in 1..5 : HitIndices(Priority[j], p) = {}
    /\ shapeUnderPointer(p[1], p[2]) = Threw

\* C11: an undo on a non-empty history removes exactly the most recent
\* snapshot from the history, makes the six sequences that snapshot and leaves
\* no Draft, no Selection and no interaction, whatever the state it runs in.
C11_UndoPops ==
  [][(Len(history) > 0 /\ Undo) =>
       /\ history' = SubSeq(history, 1, Len(history) - 1)
       /\ Scene' = history[Len(history)]
       /\ draft' = Null /\ selected' = Null /\ interaction' = Null]_vars

\* a freehand stroke was begun over the drawn one and undone before the
\* pointer went up: the stroke is gone and the pen is still down
C11_UndoneMidStroke ==
  /\ tool = "pen" /\ drawing /\ nDown = 1 /\ nMove >= 1
  /\ laser = <<>> /\ erasingPath = <<>>
  /\ lines = drawnScene("pen").lines /\ history = <<Snapshot(EmptyScene)>>

\* C12: a step that changes the sequence of the selected shape's kind, other
\* than a pointer-move of the select tool (the selection's own move or
\* resize), leaves no Selection: an eraser step that deletes a shape of that
\* kind, the commit of a newly drawn shape of that kind, an undo.
C12_SelectionCleared ==
  [][(/\ selected # Null
      /\ LET kind == selected.kind IN Arr(Scene', kind) # Arr(Scene, kind)
      /\ ~(tool = "select" /\ \E p \in Grid : PointerMove(p)))
       => selected' = Null]_vars

\* the eraser has deleted the selected shape, the only one of its kind, and
\* the Selection still names it
C12_SelectedErased ==
  /\ tool = "eraser" /\ drawing /\ Len(erasingPath) >= 2
  /\ selected # Null /\ Arr(Scene, selected.kind) = <<>>

\* C13: there is a Draft only under one of the tools rect, circle, line, arrow
\* and triangle; only a pointer-down makes one; and after a pointer-up or a
\* pointer-leave there is none, whatever the tool is by then.
C13_DraftOnlyWhileDown ==
  /\ [](/\ draft # Null => tool \in {"rect", "circle", "line", "arrow", "triangle"}
        /\ (gest # Null /\ gest.phase = "up") => draft = Null)
  /\ [][/\ (draft = Null /\ draft' # Null) => \E p \in Grid : PointerDown(p)
        /\ PointerLeave => draft' = Null]_vars

\* a rectangle was begun, the tool was changed to select, the pointer went
\* up, and the Draft is still there
C13_DraftAfterUp ==
  /\ gest # Null /\ gest.phase = "up" /\ gest.kind = "switched"
  /\ tool = "select" /\ draft # Null /\ draft.type = "rect"

\* C14: a pointer-move of a move or a resize whose selected index no longer
\* holds a shape (the shapes of the kind were deleted after the pointer-down)
\* writes nothing to the six sequences, clears the Selection and abandons
\* the interaction.
C14_StaleMoveAbandoned ==
  [][(/\ tool = "select" /\ interaction # Null /\ selected # Null
      /\ ~IsShape(At(Arr(Scene, selected.kind), selected.idx))
      /\ \E p \in Grid : PointerMove(p))
       => /\ Scene' = Scene
          /\ selected' = Null /\ interaction' = Null]_vars

\* a pointer-move has written the moved shape at index 1 of the emptied
\* sequence of its kind, and the move goes on
C14_WrittenPastEnd ==
  /\ tool = "select" /\ interaction # Null /\ selected # Null /\ nMove >= 1
  /\ LET arr == Arr(Scene, selected.kind)
     IN Len(arr) = 2 /\ arr[1] = Hole /\ IsShape(arr[2])

\* the points of the stroke l all lie within its effective radius,
\* max(2, eraser width, half the stroke's width), of some sample in path
Covered(l, path) ==
  \A i \in 1..Len(l.points) :
    nearPath(l.points[i], path, RMax(RMax(I(2), I(strokeWidth)), Rat(l.strokeWidth, 2)))

\* C15: an eraser step removes from the freehand sequence every stroke all of
\* whose points lie within the effective radius of the step's samples, a
\* stroke of a single point included.
C15_CoveredStrokeRemoved ==
  [][(tool = "eraser" /\ drawing /\ Len(erasingPath) >= 1 /\ \E p \in Grid : PointerMove(p))
       => \A i \in 1..Len(lines) :
            Covered(lines[i], SubSeq(erasingPath', Len(erasingPath), Len(erasingPath')))
              => \A k \in 1..Len(lines') : lines'[k] # lines[i]]_vars

\* the eraser has passed over the point of a tapped stroke, and the stroke is
\* still there
C15_TapSurvives ==
  /\ tool = "eraser" /\ drawing /\ Len(erasingPath) >= 2
  /\ erasingPath[Len(erasingPath)] = Pt([x |-> 0, y |-> 0])
  /\ lines = <<drawnShape("tap")>>

\* C16: the history changes only in a pointer-down, which pushes one
\* snapshot, and in an undo, which removes the last one: a pointer-move, a
\* pointer-up, a pointer-leave, a wheel event and a change of tool or style
\* leave it as it is.
C16_HistoryFrame ==
  [][history' # history =>
       \/ /\ nDown' = nDown + 1 /\ \E p \in Grid : PointerDown(p)
          /\ history' = pushHistory
       \/ /\ Undo
          /\ history' = SubSeq(history, 1, Len(history) - 1)]_vars

\* a freehand stroke was drawn with two pointer-moves, and the history holds
\* the one snapshot its pointer-down pushed
C16_OnePushPerStroke ==
  /\ gest # Null /\ gest.kind = "pen" /\ gest.phase = "up" /\ nMove = 2
  /\ Len(lines[Len(lines)].points) = 3
  /\ history = <<Snapshot(gest.before)>>

\* C17 (as stated): an undo skips the snapshots of the gestures that ended
\* without having changed the six sequences: it installs the most recent
\* snapshot that differs from the scene, if there is one.
C17_UndoSkipsNoOps ==
  [][(Undo /\ \E j \in 1..Len(history) : history[j] # Snapshot(Scene)) =>
       \E j \in 1..Len(history) :
         /\ history[j] # Snapshot(Scene)
         /\ \A k \in (j + 1)..Len(history) : history[k] = Snapshot(Scene)
         /\ Scene' = history[j]]_vars

\* C17 (amended): an undo after a gesture that pushed a snapshot (ended by a
\* pointer-up or a pointer-leave) removes that one snapshot and installs it,
\* whether the gesture changed the six sequences or not: a gesture that
\* changed nothing consumes an undo step.
C17_UndoRevertsLastGesture ==
  [][(Undo /\ gest # Null /\ gest.phase \in {"up", "left"} /\ gest.kind \in GestureKinds) =>
       /\ Scene' = Snapshot(gest.before)
       /\ history' = SubSeq(history, 1, Len(history) - 1)
       /\ Len(history) > 0]_vars

\* a shape was begun over the drawn scene and discarded by a pointer-leave;
\* the undo after it has left the drawn scene in place and the history at the
\* snapshot of the empty scene
C17_UndoneDiscardedDraft ==
  /\ gest # Null /\ gest.phase = "leftUndone" /\ gest.kind = "shape"
  /\ Scene = gest.before /\ Scene # EmptyScene
  /\ history = <<Snapshot(EmptyScene)>>

\* C18: of a stroke of at least 2 points the segmenter returns exactly the
\* maximal runs of consecutive points farther than the radius from every
\* eraser sample that have at least 2 points, in the order of the stroke;
\* every returned stroke has at least 2 points, none of its points is within
\* the radius of a sample, and the returned strokes one after the other are a
\* subsequence of the stroke.
C18_MaximalRuns ==
  (query # Null /\ Len(query.points) >= 2) =>
    LET n == Len(query.points)
        run(k) == CHOOSE r \in Runs : Cardinality({q \in Runs : q[1] < r[1]}) = k - 1
        RECURSIVE flat(_)
        flat(k) == IF k = 0 THEN <<>> ELSE flat(k - 1) \o answer[k]
        inOrder(all) ==
          \E f \in [1..Len(all) -> 1..n] :
            /\ \A a, b \in 1..Len(all) : a < b => f[a] < f[b]
            /\ \A m \in 1..Len(all) : query.points[f[m]] = all[m]
    IN /\ answer = [k \in 1..Cardinality(Runs) |->
                      SubSeq(query.points, run(k)[1], run(k)[2])]
       /\ \A k \in 1..Len(answer) :
            /\ Len(answer[k]) >= 2
            /\ \A m \in 1..Len(answer[k]) :
                 \A i \in 1..n : query.points[i] = answer[k][m] => ~Erased(i)
       /\ inOrder(flat(Len(answer)))

\* the second point of a stroke of 5 lies at exactly the radius of the one
\* eraser sample and the first within it: the last three points are returned
C18_TailKept ==
  /\ query # Null /\ query.points = Stroke(5)
  /\ query.path = <<[x |-> I(5), y |-> I(0)]>> /\ query.radius = I(5)
  /\ answer = <<SubSeq(Stroke(5), 3, 5)>>

\* C19: an eraser step leaves of the rectangles, circles, lines, arrows and
\* triangles, in their order and as they were, exactly the elements that are
\* not shapes hit by a sample of the step's path (the last sample of the path
\* before the step and those the step adds), and the canvas stays mounted.
C19_AllOrNothing ==
  [][(tool = "eraser" /\ drawing /\ Len(erasingPath) >= 1 /\ \E p \in Grid : PointerMove(p))
       => /\ ~unmounted'
          /\ \A kind \in {"rect", "circle", "line", "arrow", "triangle"} :
               Arr(Scene', kind) =
                 SelectSeq(Arr(Scene, kind),
                           LAMBDA s : ~(/\ IsShape(s)
                                        /\ pathHits(kind, s,
                                                    SubSeq(erasingPath', Len(erasingPath),
                                                           Len(erasingPath')),
                                                    RMax(I(2), I(strokeWidth)))))]_vars

\* the sequence of a kind holds null in place of an empty slot (a snapshot
\* taken over the slot was restored), the eraser has moved over the scene,
\* and the canvas is gone
C19_ErasedOverNull ==
  /\ unmounted /\ tool = "eraser" /\ drawing
  /\ Len(rects) = 2 /\ rects[1] = Null /\ IsShape(rects[2])

\* the shape that is topmost under p: of the first kind, in the order of
\* Priority, with a hit, the hit shape with the largest index; Null if no
\* shape is hit
TopHit(p) ==
  IF \A k \in 1..6 : HitIndices(Priority[k], p) = {} THEN Null
  ELSE LET k == CHOOSE c \in 1..6 :
                  /\ HitIndices(Priority[c], p) # {}
                  /\ \A j \in 1..(c - 1) : HitIndices(Priority[j], p) = {}
           hits == HitIndices(Priority[k], p)
       IN [kind |-> Priority[k], idx |-> CHOOSE i \in hits : \A h \in hits : h <= i]

\* a pointer-down of the select tool whose two queries return, and that is
\* not on a handle of the Selection
OffHandleDown ==
  /\ tool = "select" /\ ~unmounted /\ nDown' = nDown + 1 /\ ~threw'
  /\ selected # Null =>
       LET p == gest'.down IN ~handleUnderPointer(p[1], p[2]).hit

SelectedShape ==
  IF selected = Null THEN Null
  ELSE LET s == At(Arr(Scene, selected.kind), selected.idx)
       IN IF IsShape(s) THEN s ELSE Null

\* the corner handles of the selected shape's bounding box that p lies on:
\* 0 top-left, 1 top-right, 2 bottom-right, 3 bottom-left
HandlesAt(p) ==
  IF SelectedShape = Null THEN {}
  ELSE LET bbox == getSelectedBBox
           cx(h) == IF h \in {0, 3} THEN bbox.x0 ELSE bbox.x1
           cy(h) == IF h \in {0, 1} THEN bbox.y0 ELSE bbox.y1
       IN {h \in 0..3 : /\ WithinHandle(p[1], cx(h), HandleSize)
                        /\ WithinHandle(p[2], cy(h), HandleSize)}

\* C21: with a shape selected, a pointer-down of the select tool on a corner
\* handle of its bounding box pushes one snapshot and starts a resize with
\* the id of the handle (the lowest one if the pointer lies on several), the
\* pointer-down point and a copy of the selected shape; the Selection and the
\* six sequences stay as they are, whatever else lies under the pointer.
C21_HandleFirst ==
  [][(/\ tool = "select" /\ ~unmounted /\ nDown' = nDown + 1
      /\ HandlesAt(gest'.down) # {})
       => /\ Len(history) < MAX_HISTORY => history' = Append(history, Snapshot(Scene))
          /\ interaction' =
               [mode |-> "resizing",
                handle |-> CHOOSE h \in HandlesAt(gest'.down) :
                             \A g \in HandlesAt(gest'.down) : h <= g,
                start |-> [x |-> gest'.down[1], y |-> gest'.down[2]],
                original |-> SelectedShape]
          /\ selected' = selected /\ Scene' = Scene]_vars

\* the pointer has gone down on the top-left handle of the selected
\* rectangle, where a freehand stroke begins: a resize has started
C21_HandleOverStroke ==
  /\ gest # Null /\ gest.phase = "down" /\ gest.kind = "resize"
  /\ selected = [kind |-> "rect", idx |-> 0]
  /\ interaction.mode = "resizing" /\ interaction.handle = 0
  /\ TopHit(gest.down) = [kind |-> "pen", idx |-> 0]
  /\ Len(history) = 4

\* the shape v is the shape o of the kind with every coordinate translated by
\* (dx, dy) and the other fields as they are
Translated(kind, v, o, dx, dy) ==
  /\ IsShape(v) /\ IsShape(o) /\ DOMAIN v = DOMAIN o
  /\ \A f \in DOMAIN o :
       v[f] = IF f \in {"x", "x1", "x2", "x3"} THEN o[f] + dx
              ELSE IF f \in {"y", "y1", "y2", "y3"} THEN o[f] + dy
              ELSE o[f]

\* C22: a pointer-move of a move at p leaves at the selected index the
\* baseline shape translated by p minus the pointer-down point, whatever the
\* pointer-moves before it; every other element of the six sequences and
\* their lengths are as before.
C22_MoveTranslates ==
  [][(/\ tool = "select" /\ ~unmounted /\ selected # Null
      /\ interaction # Null /\ interaction.mode = "moving" /\ nMove' = nMove + 1)
       => \E p \in Grid \cup ResizePoints :
            /\ gest' # Null => p = gest'.last
            /\ Translated(selected.kind, At(Arr(Scene', selected.kind), selected.idx),
                          interaction.original,
                          p[1] - interaction.start.x, p[2] - interaction.start.y)
            /\ \A kind \in {"pen", "rect", "circle", "line", "arrow", "triangle"} :
                 /\ Len(Arr(Scene', kind)) = Len(Arr(Scene, kind))
                 /\ \A i \in 1..Len(Arr(Scene, kind)) :
                      (kind # selected.kind \/ i # selected.idx + 1)
                        => Arr(Scene', kind)[i] = Arr(Scene, kind)[i]]_vars

\* a pointer-move of a move at <<16, 0>> has made the emptied sequence of the
\* selected kind two elements long: an empty slot and the baseline shape
\* translated by 16
C22_GrownByMove ==
  /\ tool = "select" /\ interaction # Null /\ interaction.mode = "moving"
  /\ selected # Null /\ selected.idx = 1 /\ nMove = 1
  /\ LET arr == Arr(Scene, selected.kind)
     IN /\ arr = <<Hole, movedShape(selected.kind, interaction.original, 16, 0)>>
        /\ history[Len(history)] = Snapshot(EmptyScene) \/ Len(history) = 4

\* C23: after a pointer-move of a rectangle resize the rectangle at the
\* selected index is at least 1 wide and 1 high, and the corner of its
\* bounding box opposite the dragged handle is where it is in the baseline,
\* for every handle, displacement and baseline (flipped and zero-extent ones
\* included).
C23_RectClamped ==
  [][(/\ tool = "select" /\ ~unmounted /\ selected # Null /\ selected.kind = "rect"
      /\ interaction # Null /\ interaction.mode = "resizing" /\ nMove' = nMove + 1)
       => LET r == At(rects', selected.idx)
              o == interaction.original
              h == interaction.handle
              farX(s) == IF h \in {0, 3} THEN Max2(s.x, s.x + s.width)
                         ELSE Min2(s.x, s.x + s.width)
              farY(s) == IF h \in {0, 1} THEN Max2(s.y, s.y + s.height)
                         ELSE Min2(s.y, s.y + s.height)
          IN /\ IsShape(r) /\ r.width >= 1 /\ r.height >= 1
             /\ farX(r) = farX(o) /\ farY(r) = farY(o)]_vars

\* the bottom-right handle of a rectangle drawn from <<16, 16>> to <<0, 0>>
\* was dragged to <<-16, -16>>: the rectangle is 1 wide and 1 high at <<0, 0>>
C23_FlippedClamped ==
  /\ tool = "select" /\ interaction # Null /\ interaction.mode = "resizing"
  /\ interaction.handle = 2 /\ nMove >= 1
  /\ interaction.original = shapeDrawn("rect", <<16, 16>>, <<0, 0>>)
  /\ rects = <<[interaction.original EXCEPT !.x = 0, !.y = 0, !.width = 1, !.height = 1]>>

\* C24: a pointer-move of a line or arrow resize moves, by the displacement
\* of the pointer since the pointer-down, the endpoint of the baseline that
\* is nearer to the dragged corner of its bounding box (either one if they
\* are equally near), and leaves the other endpoint where it is in the
\* baseline, for every orientation of the segment.
C24_NearestEndpointMoves ==
  [][(/\ tool = "select" /\ ~unmounted /\ selected # Null
      /\ selected.kind \in {"line", "arrow"} /\ gest' # Null
      /\ interaction # Null /\ interaction.mode = "resizing" /\ nMove' = nMove + 1)
       => LET l == At(Arr(Scene', selected.kind), selected.idx)
              o == interaction.original
              h == interaction.handle
              hx == IF h \in {0, 3} THEN Min2(o.x1, o.x2) ELSE Max2(o.x1, o.x2)
              hy == IF h \in {0, 1} THEN Min2(o.y1, o.y2) ELSE Max2(o.y1, o.y2)
              d1 == (o.x1 - hx) * (o.x1 - hx) + (o.y1 - hy) * (o.y1 - hy)
              d2 == (o.x2 - hx) * (o.x2 - hx) + (o.y2 - hy) * (o.y2 - hy)
              dx == gest'.last[1] - interaction.start.x
              dy == gest'.last[2] - interaction.start.y
              first == [o EXCEPT !.x1 = o.x1 + dx, !.y1 = o.y1 + dy]
              second == [o EXCEPT !.x2 = o.x2 + dx, !.y2 = o.y2 + dy]
          IN /\ d1 < d2 => l = first
             /\ d2 < d1 => l = second
             /\ l \in {first, second}]_vars

\* the top-right handle of a line drawn from <<16, 0>> to <<0, 16>> was
\* dragged up by 16: the first endpoint, under the handle, is where it was
\* and the second one has moved to <<0, 0>>
C24_FarEndpointMoved ==
  /\ tool = "select" /\ interaction # Null /\ interaction.mode = "resizing"
  /\ interaction.handle = 1 /\ nMove >= 1
  /\ interaction.start = [x |-> 16, y |-> 0]
  /\ interaction.original = shapeDrawn("line", <<16, 0>>, <<0, 16>>)
  /\ simpleLines = <<[interaction.original EXCEPT !.x2 = 0, !.y2 = 0]>>

\* C25 (as stated): after a pointer-move of a circle resize at p the circle
\* at the selected index has the centre of the baseline and the distance
\* from the centre to p as its radius, for every p.
C25_RadiusIsDistance ==
  [][(/\ tool = "select" /\ ~unmounted /\ selected # Null /\ selected.kind = "circle"
      /\ gest' # Null
      /\ interaction # Null /\ interaction.mode = "resizing" /\ nMove' = nMove + 1)
       => LET c == At(circles', selected.idx)
              o == interaction.original
              dx == gest'.last[1] - o.x
              dy == gest'.last[2] - o.y
          IN c = [o EXCEPT !.radius = Sqrt(dx * dx + dy * dy)]]_vars

\* C25 (amended): the radius is that distance if it is at least 1, and 1 if
\* the pointer is nearer to the centre than that; the centre and the style
\* are those of the baseline.
C25_RadiusAtLeastOne ==
  [][(/\ tool = "select" /\ ~unmounted /\ selected # Null /\ selected.kind = "circle"
      /\ gest' # Null
      /\ interaction # Null /\ interaction.mode = "resizing" /\ nMove' = nMove + 1)
       => LET c == At(circles', selected.idx)
              o == interaction.original
              dx == gest'.last[1] - o.x
              dy == gest'.last[2] - o.y
              d2 == dx * dx + dy * dy
          IN c = [o EXCEPT !.radius = Sqrt(IF d2 < 1 THEN 1 ELSE d2)]]_vars

\* a handle of the circle of radius 16 round <<0, 0>> was dragged onto the
\* centre: the radius is 1
C25_DraggedToCentre ==
  /\ tool = "select" /\ interaction # Null /\ interaction.mode = "resizing"
  /\ gest # Null /\ gest.phase = "down" /\ gest.last = <<0, 0>> /\ nMove >= 1
  /\ interaction.original = shapeDrawn("circle", <<0, 0>>, <<16, 0>>)
  /\ circles = <<[interaction.original EXCEPT !.radius = Sqrt(1)]>>

\* C26: a pointer-move of a triangle resize leaves at the selected index the
\* baseline with one vertex moved by the displacement of the pointer since
\* the pointer-down: the vertex nearest to the pointer-down point, the
\* lowest-numbered one of those equally near; the other two vertices are
\* those of the baseline.
C26_NearestVertexMoves ==
  [][(/\ tool = "select" /\ ~unmounted /\ selected # Null /\ selected.kind = "triangle"
      /\ gest' # Null
      /\ interaction # Null /\ interaction.mode = "resizing" /\ nMove' = nMove + 1)
       => LET t == At(triangles', selected.idx)
              o == interaction.original
              s == interaction.start
              vx == <<o.x1, o.x2, o.x3>>
              vy == <<o.y1, o.y2, o.y3>>
              d(i) == (vx[i] - s.x) * (vx[i] - s.x) + (vy[i] - s.y) * (vy[i] - s.y)
              near == CHOOSE i \in 1..3 :
                        \A j \in 1..3 : d(i) < d(j) \/ (d(i) = d(j) /\ i <= j)
              dx == gest'.last[1] - s.x
              dy == gest'.last[2] - s.y
              at(i) == IF i = near THEN <<vx[i] + dx, vy[i] + dy>> ELSE <<vx[i], vy[i]>>
          IN /\ IsShape(t)
             /\ <<t.x1, t.y1>> = at(1) /\ <<t.x2, t.y2>> = at(2) /\ <<t.x3, t.y3>> = at(3)
             /\ t.stroke = o.stroke /\ t.strokeWidth = o.strokeWidth
             /\ t.dashed = o.dashed]_vars

\* the bottom-right handle of the triangle drawn from <<0, 0>> to <<16, 16>>
\* lies on its second vertex: dragged to <<16, -16>>, that vertex has moved
\* by <<0, -32>> and the other two are where they were
C26_SecondVertexMoved ==
  /\ tool = "select" /\ interaction # Null /\ interaction.mode = "resizing"
  /\ interaction.handle = 2 /\ nMove >= 1
  /\ interaction.original = shapeDrawn("triangle", <<0, 0>>, <<16, 16>>)
  /\ triangles = <<[interaction.original EXCEPT !.x2 = 16, !.y2 = -16]>>

\* a triangle is being drafted: the pointer went down with the triangle tool
\* and has moved since
DraftingTriangle ==
  /\ tool = "triangle" /\ draft # Null /\ draft.type = "triangle"
  /\ gest # Null /\ gest.phase = "down" /\ gest.tool = "triangle" /\ nMove >= 1

\* C27 (as stated): while a triangle is drafted, after a pointer-move at p the
\* Draft has its first vertex at the pointer-down point, its second at p and
\* its third at the mirror image of the second in the first, and the first
\* vertex is equally far from the other two.
C27_MirrorInVertex ==
  DraftingTriangle =>
    /\ <<draft.x1, draft.y1>> = gest.down /\ <<draft.x2, draft.y2>> = gest.last
    /\ draft.x3 = 2 * draft.x1 - draft.x2 /\ draft.y3 = 2 * draft.y1 - draft.y2
    /\ (draft.x2 - draft.x1) * (draft.x2 - draft.x1)
         + (draft.y2 - draft.y1) * (draft.y2 - draft.y1)
       = (draft.x3 - draft.x1) * (draft.x3 - draft.x1)
         + (draft.y3 - draft.y1) * (draft.y3 - draft.y1)

\* C27 (amended): the third vertex is the mirror image of the second in the
\* vertical line through the first: it has the height of the second, and the
\* first vertex is equally far from the other two.
C27_MirrorInVerticalLine ==
  DraftingTriangle =>
    /\ <<draft.x1, draft.y1>> = gest.down /\ <<draft.x2, draft.y2>> = gest.last
    /\ draft.x3 = 2 * draft.x1 - draft.x2 /\ draft.y3 = draft.y2
    /\ (draft.x2 - draft.x1) * (draft.x2 - draft.x1)
         + (draft.y2 - draft.y1) * (draft.y2 - draft.y1)
       = (draft.x3 - draft.x1) * (draft.x3 - draft.x1)
         + (draft.y3 - draft.y1) * (draft.y3 - draft.y1)

\* a triangle begun at <<0, 0>> with the pointer now at <<3, 4>>: the third
\* vertex is at <<-3, 4>>
C27_ThirdVertexLevel ==
  /\ DraftingTriangle /\ gest.down = <<0, 0>> /\ gest.last = <<3, 4>>
  /\ draft.x3 = -3 /\ draft.y3 = 4

\* C28: a pointer-move of the pen tool during a pen gesture (the pointer went
\* down with the pen and only pointer-moves have followed) appends the
\* pointer's point to the stroke the pointer-down appended and changes
\* nothing else in the six sequences; when no pen gesture is running, or an
\* undo has removed its stroke, a pointer-move of the pen tool changes no
\* stroke and no shape.  (After a change of tool during the gesture the
\* ghost record no longer names the stroke, and nothing is required.)
C28_OwnStrokeOnly ==
  [][(tool = "pen" /\ ~unmounted /\ nMove' = nMove + 1) =>
       IF gest # Null /\ gest.phase = "down" /\ gest.tool = "pen"
         THEN LET k == Len(gest.before.lines) + 1
              IN /\ Len(lines) >= k
                 /\ Scene' = [Scene EXCEPT !.lines[k].points = Append(@, gest'.last)]
       ELSE IF gest # Null /\ gest.phase = "down" THEN TRUE
       ELSE Scene' = Scene]_vars

\* the drawn stroke has a third point: a pen gesture was begun after it and
\* undone, and the pointer has moved since
C28_EarlierStrokeGrown ==
  /\ tool = "pen" /\ drawing /\ nDown = 1 /\ nMove = 1 /\ gest = Null
  /\ Len(lines) = 1 /\ SubSeq(lines[1].points, 1, 2) = drawnShape("pen").points
  /\ Len(lines[1].points) = 3
  /\ history = <<Snapshot(EmptyScene)>>

\* C29: a pointer-leave while a Draft exists leaves the six sequences as they
\* are and sets the Draft to none, and a pointer-up that follows the leave
\* of a shape gesture changes none of the six sequences.
C29_LeaveDiscardsDraft ==
  [][/\ (draft # Null /\ PointerLeave) => (Scene' = Scene /\ draft' = Null)
     /\ (gest # Null /\ gest.phase = "left" /\ gest.kind = "shape" /\ PointerUp)
          => (Scene' = Scene /\ draft' = Null)]_vars

\* the pointer has left during a rectangle gesture that had a Draft of
\* positive extent: no rectangle was added
C29_DraftLeftBehind ==
  /\ gest # Null /\ gest.phase = "left" /\ gest.kind = "shape" /\ gest.tool = "rect"
  /\ gest.last # gest.down /\ nMove >= 1
  /\ draft = Null /\ ~drawing
  /\ Scene = gest.before

C31_PanMovesOffsetOnly ==
  /\ [](gest # Null /\ gest.phase = "down" /\ gest.tool = "pan" =>
          /\ isPanning /\ panLast # Null
          /\ RSub(panLast.x, offset.x) = RMul(I(gest.down[1]), scale)
          /\ RSub(panLast.y, offset.y) = RMul(I(gest.down[2]), scale))
  /\ [][(tool = "pan" /\ isPanning /\ panLast # Null /\ ~unmounted
          /\ nMove' = nMove + 1) =>
           /\ panLast' # Null
           /\ RSub(offset'.x, offset.x) = RSub(panLast'.x, panLast.x)
           /\ RSub(offset'.y, offset.y) = RSub(panLast'.y, panLast.y)]_vars
  /\ [][(tool = "pan" /\ (\/ nDown' = nDown + 1 \/ nMove' = nMove + 1
                           \/ PointerUp \/ PointerLeave)) =>
           /\ scale' = scale /\ Scene' = Scene
           /\ selected' = selected /\ history' = history]_vars
  /\ [][(tool = "pan" /\ nMove' = nMove + 1
          /\ (nDown = 0 \/ (gest # Null /\ gest.phase \in {"up", "left"}))) =>
           offset' = offset]_vars

\* the pan tool was exchanged for another while the pointer was down and
\* taken up again after the pointer-up: the viewport is still panning
C31_PanningAfterUp ==
  /\ tool = "pan" /\ isPanning /\ panLast # Null
  /\ gest # Null /\ gest.phase = "up"

\* C32: a pointer-down or pointer-move of the laser tool leaves the trail as
\* it is, or with the pointer's point appended and at most 1200 samples, or,
\* when the appended sample is the 1201st or a later one, with the 200 oldest
\* samples dropped; it changes none of the six sequences and not the history.
C32_TrailCapped ==
  [][(tool = "laser" /\ ~unmounted /\ (nDown' = nDown + 1 \/ nMove' = nMove + 1)) =>
       LET pushed == Append(laser, [x |-> gest'.last[1], y |-> gest'.last[2]])
       IN /\ Len(laser') <= 1200
          /\ \/ laser' = laser
             \/ Len(pushed) <= 1200 /\ laser' = pushed
             \/ Len(pushed) > 1200 /\ laser' = SubSeq(pushed, 201, Len(pushed))
          /\ Scene' = Scene /\ history' = history]_vars

\* the pointer went down on a trail of 1200 samples
C32_TrailOverCap ==
  /\ tool = "laser" /\ drawing /\ Len(laser) = 1201
  /\ gest # Null /\ gest.phase = "down" /\ nMove = 0

\* C33: at every scale the hit tests use a threshold of base / scale world
\* units.  A pointer-down of the select tool, with no stroke in the scene and
\* nothing selected, selects a shape exactly if the pointer is within
\* 6 / scale of a shape's outline; the first pointer-move of the eraser, at
\* the point of its pointer-down, erases exactly what lies within
\* max(2, strokeWidth) / scale of that point (for strokes, lines and arrows
\* within half their width, if that is more).
C33_ThresholdOverScale ==
  [][/\ (tool = "select" /\ ~unmounted /\ nDown' = nDown + 1
         /\ selected = Null /\ Len(lines) = 0) =>
          LET px == gest'.down[1]
              py == gest'.down[2]
              T == RDiv(I(6), scale)
              hit(kind, sh) ==
                CASE kind = "rect" -> rectHit(sh, I(px), I(py), T)
                  [] kind = "circle" -> circleHit(sh, I(px), I(py), T)
                  [] kind \in {"line", "arrow"} -> lineHit(sh, I(px), I(py), T)
                  [] kind = "triangle" -> triangleHit(sh, I(px), I(py), T)
          IN (selected' # Null) <=>
               \E kind \in {"rect", "circle", "line", "arrow", "triangle"} :
                 \E j \in 1..Len(Arr(Scene, kind)) : hit(kind, Arr(Scene, kind)[j])
     /\ (tool = "eraser" /\ ~unmounted /\ drawing /\ nMove = 0 /\ nMove' = 1
         /\ gest # Null /\ gest.tool = "eraser" /\ gest'.last = gest.down) =>
          LET path == <<Pt([x |-> gest.down[1], y |-> gest.down[2]]),
                        Pt([x |-> gest.down[1], y |-> gest.down[2]])>>
              T == RDiv(RMax(I(2), I(strokeWidth)), scale)
          IN /\ lines' = eraseLines(lines, 1, path, T)
             /\ \A kind \in {"rect", "circle", "line", "arrow", "triangle"} :
                  Arr(Scene', kind) = eraseShapes(kind, Arr(Scene, kind), path, T)]_vars

\* zoomed out to the least scale, the eraser was held 5 world units (2.5
\* pixels) from the rectangle, which is still there
C33_NotErasedZoomedOut ==
  /\ tool = "eraser" /\ scale = MIN_SCALE /\ strokeWidth = 3
  /\ gest # Null /\ gest.phase = "down" /\ gest.down = <<8, 0>> /\ gest.last = <<8, 0>>
  /\ nMove = 1 /\ rects = <<drawnShape("rect")>>

\* C34: in every state a Selection names a shape that exists: its index is
\* below the length of the sequence of its kind and the element there is a
\* shape.
C34_SelectionExists ==
  selected # Null =>
    /\ selected.idx < Len(Arr(Scene, selected.kind))
    /\ IsShape(At(Arr(Scene, selected.kind), selected.idx))

\* the selected shape was erased and the Selection still names its index
C34_SelectedAndErased ==
  /\ tool = "eraser" /\ selected # Null /\ nMove >= 1
  /\ gest # Null /\ gest.tool = "eraser"
  /\ Len(Arr(Scene, selected.kind)) = 0
  /\ Len(Arr(gest.before, selected.kind)) = 1

\* C35: a pointer-move after the pointer-up or pointer-leave of a gesture,
\* whatever tools were chosen during the gesture and after it, changes
\* neither the six sequences nor the Draft.
C35_IdleMoveChangesNothing ==
  [][(gest # Null /\ gest.phase \in {"up", "left"} /\ ~unmounted
      /\ nMove' = nMove + 1) =>
       (Scene' = Scene /\ draft' = draft)]_vars

\* the pen was exchanged for the pan tool while the pointer was down and
\* taken up again after the pointer-up: the program is still drawing
C35_DrawingAfterUp ==
  /\ tool = "pen" /\ drawing /\ Len(lines) = 1
  /\ gest # Null /\ gest.phase = "up" /\ gest.kind = "switched"

\* C36: an undo made while the snapshot on top of the stack is the one the
\* last pointer-down pushed leaves the six sequences exactly as they were at
\* that pointer-down, whatever the gesture has done to them since; and every
\* step leaves the stack as it is, pushes one snapshot on it (evicting the
\* oldest when it is full) or pops the newest: no snapshot on it changes.
C36_SnapshotRestoredExactly ==
  /\ [][(gest # Null /\ gest.phase \in {"down", "up", "left"}
          /\ gest.kind \in GestureKinds /\ Len(history) > 0 /\ Undo) =>
           Scene' = gest.before]_vars
  /\ [][LET n == Len(history)
        IN \/ history' = history
           \/ Len(history') = n + 1 /\ SubSeq(history', 1, n) = history
           \/ /\ n = MAX_HISTORY /\ Len(history') = n
              /\ SubSeq(history', 1, n - 1) = Tail(history)
           \/ n > 0 /\ history' = SubSeq(history, 1, n - 1)]_vars

\* a snapshot of a sequence with an empty slot was pushed and popped again:
\* the slot now holds null
C36_SlotBecameNull ==
  /\ gest = Null /\ nDown = 1
  /\ Len(rects) = 2 /\ rects[1] = Null /\ IsShape(rects[2])

\* C37: whenever the history is empty the six sequences are empty (the stack
\* never holds 100 snapshots in these runs, so none is evicted).
C37_EmptyHistoryEmptyScene ==
  Len(history) = 0 => Scene = EmptyScene

\* the drawn shape and a pen gesture begun after it were both undone while
\* the pointer was down, and the pointer has moved since
C37_UndoneToEmpty ==
  /\ Len(history) = 0 /\ Scene = EmptyScene
  /\ tool = "pen" /\ drawing /\ nDown = 1 /\ nMove >= 1

\* C38: a pointer-move of a resize at the point of its pointer-down leaves the
\* selected shape geometrically equal to the baseline: the same bounding box
\* for a rectangle, the same centre and radius for a circle, the same
\* endpoints or vertices for a line, an arrow or a triangle.
C38_ZeroResizeIsIdentity ==
  [][(/\ tool = "select" /\ ~unmounted /\ selected # Null
      /\ interaction # Null /\ interaction.mode = "resizing"
      /\ gest # Null /\ gest.phase = "down" /\ gest.kind = "resize"
      /\ nMove' = nMove + 1 /\ gest'.last = gest.down)
       => LET s == At(Arr(Scene', selected.kind), selected.idx)
              o == interaction.original
          IN /\ IsShape(s)
             /\ CASE selected.kind = "rect" -> getRectBBox(s) = getRectBBox(o)
                  [] selected.kind = "circle" ->
                       s.x = o.x /\ s.y = o.y /\ s.radius = o.radius
                  [] selected.kind \in {"line", "arrow"} ->
                       s.x1 = o.x1 /\ s.y1 = o.y1 /\ s.x2 = o.x2 /\ s.y2 = o.y2
                  [] selected.kind = "triangle" ->
                       /\ s.x1 = o.x1 /\ s.y1 = o.y1 /\ s.x2 = o.x2 /\ s.y2 = o.y2
                       /\ s.x3 = o.x3 /\ s.y3 = o.y3]_vars

\* a handle of the circle of radius 16 was pressed at the corner of its box
\* and the pointer moved without leaving the point: the radius is the distance
\* of the corner from the centre
C38_CircleJumped ==
  /\ tool = "select" /\ selected # Null /\ selected.kind = "circle"
  /\ interaction # Null /\ interaction.mode = "resizing"
  /\ gest # Null /\ gest.phase = "down" /\ gest.last = gest.down /\ nMove = 1
  /\ interaction.original.radius = Sqrt(256)
  /\ circles = <<[interaction.original EXCEPT !.radius = Sqrt(512)]>>

====
